---------------------------- MODULE Spec2Model ----------------------------
(***************************************************************************)
(* The authoritative server of DuckBattles (src/src/bin/server.rs), the    *)
(* clients' handling of its reliable messages (src/src/demo/client.rs)     *)
(* and the score rules (src/src/screens/gameplay.rs).                      *)
(*                                                                         *)
(* The server is a Bevy application.  One frame runs, in this order:       *)
(* StateTransition (a NextState set in an earlier frame takes effect),     *)
(* FixedUpdate zero or more times, Update, PostUpdate.  Commands           *)
(* (spawn, despawn, insert) are deferred: an entity spawned by a system is *)
(* not matched by any query until the schedule's command buffers are       *)
(* applied at the end of the schedule.                                     *)
(*                                                                         *)
(* Spec     : connections, lobby, ready check (server_update_system).      *)
(* FairSpec : Spec with the frame loop weakly fair.                        *)
(* SpecE2E  : Spec's server with two clients that connect in separate      *)
(*            frames and send one ToggleReady each.                        *)
(* SpecGame : projectiles, score penalty, coins, despawn notification.     *)
(* SpecMove : player input, move_players_system and apply_movement         *)
(*            (src/src/demo/movement.rs) within one Update schedule.       *)
(* SpecClient : client_sync_players, reliable messages and snapshots.      *)
(* SpecCollision : check_collision (src/src/demo/physics.rs) on its own.   *)
(* SpecSpawner : spawn_coins and its run condition.                        *)
(* SpecFlight, FairSpecFlight : a bot's projectiles followed to their end. *)
(* SpecSync : server_network_sync beside the other systems of Update.      *)
(* SpecWorld : generate_world and the objects a client makes of it.        *)
(* SpecSpawn : the spawn positions of the players.                         *)
(* SpecLobbyShots : the FixedUpdate systems while the screen is Lobby.     *)
(***************************************************************************)
EXTENDS Integers, Sequences, FiniteSets, TLC

\* ------------------------------------------------------------------ bounds
MaxClients == 2
MaxBots == 1
MaxInputs == 5
NumGameObjects == 2
MaxScore == 6
MaxShots == 1
MaxFixedTicks == 2
MaxCoord == 3           \* check_collision: centres within MaxCoord of the origin
MaxSize == 3            \* check_collision: widths and heights up to MaxSize
MaxMoveInputs == 2      \* SpecMove: Input and BasicAttack messages received
MaxFrames == 2          \* SpecMove: frames run
MaxClientMsgs == 4      \* SpecClient: messages the client receives
MaxSpawnerCoins == 1     \* SpecSpawner: coins the spawner spawns
MaxFlightX == 400        \* world units a projectile is followed along x
MaxFlightY == 150        \* world units a projectile is followed along y

ClientIds == 101..(100 + MaxClients)
NoEntity == 0

VARIABLES
    pc,             \* position of the server inside its frame
    server_events,  \* EventReader<ServerEvent>: events of the transport, not yet read
    connected,      \* RenetServer::clients_id()
    cmdq,           \* ClientChannel::Command, per client, not yet received
    todo,           \* clients whose channels are still to be drained this frame
    cur,            \* the client whose Command channel is being drained
    lobby,          \* ServerLobby.players : ClientId -> Entity
    ent,            \* the world: live entities and their components
    deferred,       \* Commands queued by the systems of the running schedule
    nextEntity,     \* next entity id the world hands out
    bot_id,         \* BotId
    screen,         \* State<Screen> of the server
    next_screen,    \* NextState<Screen> of the server
    sent,           \* what the server sent in the current frame, in order
    inbox,          \* ServerChannel::ServerMessages per client, not yet received
    cli,            \* per client: State<Screen> and NextState<Screen>
    nStartGame,     \* number of StartGame broadcasts so far
    nToggle,        \* per client: ToggleReady commands it has sent
    inputs,         \* number of inputs the environment has given so far
    translation,    \* Transform.translation.xy() per entity (SpecGame)
    collider,       \* Collider per entity (SpecGame)
    score_events,   \* Events<ScoreEvent> not yet read by handle_score_event
    removed,        \* RemovedComponents<Projectile> not yet read
    nDespawn,       \* per projectile ever spawned: DespawnEntity broadcasts for it
    broadcasts,     \* the SpawnProjectile, SpawnCoin and DespawnEntity messages
                    \* broadcast on ServerChannel::ServerMessages so far, in order
    shots,          \* per bot entity: projectiles it has fired
    ticks,          \* FixedUpdate runs of the current frame
    call,           \* a call of a pure function: its arguments and its result
    intent,         \* per player entity: MovementController.intent
    player_input,   \* per player entity: the PlayerInput component
    inputq,         \* ClientChannel::Input, per client, not yet received
    rx_input,       \* per client: the Input messages received in this frame
    ran,            \* the systems of Update that have run in this frame
    movement_data,  \* apply_movement: the movers still to be processed
    nClaims,        \* per coin: the +1 ScoreEvents sent for it
    frames,         \* frames run so far
    network_mapping, \* NetworkMapping of the client: server entity -> local entity
    local,          \* the client's world: its live entities
    client_lobby,   \* ClientLobby.players : ClientId -> PlayerInfo
    next_local,     \* next entity id the client's world hands out
    cdeferred,      \* Commands queued by client_sync_players in the running frame
    snapq,          \* ServerChannel::NetworkedEntities: messages not yet received
    rx_snap,        \* the NetworkedEntities messages received in this frame
    toggles,        \* Events<ToggleReadyEvent> the client sent in this frame
    cpc             \* position of the client inside its frame

vars == <<pc, server_events, connected, cmdq, todo, cur, lobby, ent, deferred,
          nextEntity, bot_id, screen, next_screen, sent, inbox, cli,
          nStartGame, nToggle, inputs, translation, collider, score_events,
          removed, nDespawn, broadcasts, shots, ticks, call, intent, player_input, inputq,
          rx_input, ran, movement_data, nClaims, frames, network_mapping, local,
          client_lobby, next_local, cdeferred, snapq, rx_snap, toggles, cpc>>

\* The clients' side: followed in SpecE2E only.
clientVars == <<inbox, cli, nToggle>>

\* The game's side: followed in SpecGame only.
gameVars == <<translation, collider, score_events, removed, nDespawn, broadcasts, shots,
              ticks>>

\* What the lobby, the clients' frames and the game's frames leave alone.
moveVars == <<intent, player_input, inputq, rx_input, ran, movement_data, nClaims,
              frames>>

\* The mirror one client keeps of the server's world: followed in SpecClient.
mirrorVars == <<network_mapping, local, client_lobby, next_local, cdeferred, snapq,
                rx_snap, toggles, cpc>>

extVars == <<call, moveVars, mirrorVars>>

\* No pure function is being called.
CallIdle == call = <<>>

\* No player moves.
MoveIdle ==
    /\ intent = <<>>
    /\ player_input = <<>>
    /\ inputq = [c \in ClientIds |-> <<>>]
    /\ rx_input = [c \in ClientIds |-> <<>>]
    /\ ran = {}
    /\ movement_data = <<>>
    /\ nClaims = <<>>
    /\ frames = 0

\* The client has received nothing.
MirrorIdle ==
    /\ network_mapping = <<>>
    /\ local = <<>>
    /\ client_lobby = <<>>
    /\ next_local = 1
    /\ cdeferred = <<>>
    /\ snapq = <<>>
    /\ rx_snap = <<>>
    /\ toggles = <<>>
    /\ cpc = "idle"

ExtIdle == CallIdle /\ MoveIdle /\ MirrorIdle

\* ------------------------------------------------------------- helpers
RECURSIVE SetToSeq(_)
SetToSeq(S) ==
    IF S = {} THEN <<>>
    ELSE LET m == CHOOSE x \in S : \A y \in S : x <= y
         IN <<m>> \o SetToSeq(S \ {m})

\* How many entries of the send log `log` carry a message of type t.
CountType(log, t) == Cardinality({i \in 1..Len(log) : log[i].m.t = t})

\* ------------------------------------------------------------- messages
\* ServerMessages (src/src/demo/lib.rs); the translation and angle fields are
\* not part of this model.
PlayerCreate(e, id, r) == [t |-> "PlayerCreate", entity |-> e, id |-> id, is_ready |-> r]
SpawnGameObject(k)     == [t |-> "SpawnGameObject", entity |-> NoEntity, id |-> k, is_ready |-> FALSE]
PlayerRemove(id)       == [t |-> "PlayerRemove", entity |-> NoEntity, id |-> id, is_ready |-> FALSE]
SetPlayerReady(e, r)   == [t |-> "SetPlayerReady", entity |-> e, id |-> 0, is_ready |-> r]
StartGame              == [t |-> "StartGame", entity |-> NoEntity, id |-> 0, is_ready |-> FALSE]
SpawnProjectile(e)     == [t |-> "SpawnProjectile", entity |-> e, id |-> 0, is_ready |-> FALSE]
SpawnCoin(e)           == [t |-> "SpawnCoin", entity |-> e, id |-> 0, is_ready |-> FALSE]
DespawnEntity(e)       == [t |-> "DespawnEntity", entity |-> e, id |-> 0, is_ready |-> FALSE]

ToAll == 0
\* RenetServer::broadcast_message and RenetServer::send_message, as entries of
\* the frame's send log.
BroadcastMessage(m) == [to |-> ToAll, m |-> m]
SendMessage(c, m)   == [to |-> c, m |-> m]

\* The messages of `out` that announce or withdraw a projectile or a coin.
Lifecycle(out) ==
    LET kept == SelectSeq(out, LAMBDA s : /\ s.to = ToAll
                                          /\ s.m.t \in {"SpawnProjectile", "SpawnCoin",
                                                         "DespawnEntity"})
    IN [i \in 1..Len(kept) |-> kept[i].m]

\* `broadcasts` after the server has sent `out`.
Logged(out) == broadcasts \o Lifecycle(out)

RECURSIVE MessagesFor(_, _)
MessagesFor(c, out) ==
    IF out = <<>> THEN <<>>
    ELSE (IF Head(out).to \in {ToAll, c} THEN <<Head(out).m>> ELSE <<>>)
         \o MessagesFor(c, Tail(out))

\* What the sends `out` add to the clients' reliable channels: a broadcast
\* reaches every client the transport holds connected.
Deliver(box, out) ==
    [c \in ClientIds |-> IF c \in connected THEN box[c] \o MessagesFor(c, out) ELSE box[c]]

\* ------------------------------------------------------------- the world
\* generate_world, scaled down to NumGameObjects static objects: the kind
\* discriminant of each (0 ground patch, 1 pond, 2 tree, 3.. wall).
GameObjects == [i \in 1..NumGameObjects |-> IF i <= 3 THEN i - 1 ELSE 3]

\* A Player that is spawned ready.
HumanPlayerReady(c) ==
    [kind |-> "player", id |-> c, score |-> 0, is_ready |-> TRUE, mc |-> TRUE, bot |-> FALSE]

\* The Player component with the components the connect handler spawns with it.
\* mc: it has a MovementController; bot: it has the Bot component.
HumanPlayer(c) ==
    [kind |-> "player", id |-> c, score |-> 0, is_ready |-> FALSE, mc |-> TRUE, bot |-> FALSE]
\* spawn_bot: a Player with no MovementController (and no Collider).
BotPlayer(b) ==
    [kind |-> "player", id |-> b, score |-> 0, is_ready |-> TRUE, mc |-> FALSE, bot |-> TRUE]

\* Query<(Entity, &mut Player, &Transform, &MovementController)>: the live
\* entities it matches.
PlayersQuery(world) == {e \in DOMAIN world : world[e].kind = "player" /\ world[e].mc}

Init ==
    /\ pc = "idle"
    /\ server_events = <<>>
    /\ connected = {}
    /\ cmdq = [c \in ClientIds |-> <<>>]
    /\ todo = {}
    /\ cur = 0
    /\ lobby = <<>>
    /\ ent = <<>>
    /\ deferred = <<>>
    /\ nextEntity = NumGameObjects + 1
    /\ bot_id = 0
    /\ screen = "Lobby"
    /\ next_screen = "None"
    /\ sent = <<>>
    /\ inbox = [c \in ClientIds |-> <<>>]
    /\ cli = [c \in ClientIds |-> [screen |-> "Lobby", next |-> "None"]]
    /\ nStartGame = 0
    /\ nToggle = [c \in ClientIds |-> 0]
    /\ inputs = 0
    /\ translation = <<>>
    /\ collider = <<>>
    /\ score_events = <<>>
    /\ removed = <<>>
    /\ nDespawn = <<>>
    /\ broadcasts = <<>>
    /\ shots = <<>>
    /\ ticks = 0
    /\ ExtIdle

\* ------------------------------------------------- the server's frame
\* Bevy's StateTransition schedule, which runs before Update: a NextState
\* set by an earlier frame becomes the state.
StateTransition(cur_state, nxt) == IF nxt = "None" THEN cur_state ELSE nxt

BeginFrame ==
    /\ UNCHANGED <<clientVars, gameVars, extVars>>
    /\ pc = "idle"
    /\ pc' = "events"
    /\ screen' = StateTransition(screen, next_screen)
    /\ next_screen' = "None"
    /\ sent' = <<>>
    /\ UNCHANGED <<server_events, connected, cmdq, todo, cur, lobby, ent, deferred,
                   nextEntity, bot_id, nStartGame, inputs>>

\* A catch-up that leaves the game objects out.
CatchUpPlayersOnly(c, world) ==
    LET ps == SetToSeq(PlayersQuery(world))
    IN [i \in 1..Len(ps) |->
            SendMessage(c, PlayerCreate(ps[i], world[ps[i]].id, world[ps[i]].is_ready))]

\* "Initialize other players for this new client" and "Initialize game objects
\* for this player": point-to-point sends to the new client.
CatchUp(c, world) ==
    LET ps == SetToSeq(PlayersQuery(world))
    IN [i \in 1..Len(ps) |->
            SendMessage(c, PlayerCreate(ps[i], world[ps[i]].id, world[ps[i]].is_ready))]
       \o [i \in 1..NumGameObjects |-> SendMessage(c, SpawnGameObject(GameObjects[i]))]

\* HashMap::insert
MapInsert(map, k, v) == [x \in DOMAIN map \cup {k} |-> IF x = k THEN v ELSE map[x]]
\* HashMap::remove
MapRemove(map, k) == [x \in DOMAIN map \ {k} |-> map[x]]

\* ServerEvent::ClientConnected { client_id }
HandleClientConnected(c) ==
    LET player_entity == nextEntity
        out == CatchUp(c, ent)
               \o <<BroadcastMessage(PlayerCreate(player_entity, c, FALSE))>>
    IN /\ nextEntity' = nextEntity + 1
       /\ deferred' = Append(deferred,
                              [op |-> "spawn", e |-> player_entity, comp |-> HumanPlayer(c)])
       /\ lobby' = MapInsert(lobby, c, player_entity)
       /\ sent' = sent \o out

\* Whether the disconnect handler broadcasts PlayerRemove for client c.
RemoveBroadcast(c) == <<BroadcastMessage(PlayerRemove(c))>>

\* A disconnect handler that leaves the player entity alive.
HandleClientDisconnectedNoDespawn(c) ==
    /\ lobby' = MapRemove(lobby, c)
    /\ sent' = sent \o RemoveBroadcast(c)
    /\ UNCHANGED <<deferred, nextEntity>>

\* The disconnect handler without lobby.players.remove.
HandleClientDisconnectedKeepEntry(c) ==
    /\ deferred' = IF c \in DOMAIN lobby
                   THEN Append(deferred, [op |-> "despawn", e |-> lobby[c], comp |-> <<>>])
                   ELSE deferred
    /\ sent' = sent \o RemoveBroadcast(c)
    /\ UNCHANGED <<lobby, nextEntity>>

\* ServerEvent::ClientDisconnected { client_id, reason }
HandleClientDisconnected(c) ==
    LET out == RemoveBroadcast(c)
    IN /\ IF c \in DOMAIN lobby
          THEN /\ lobby' = MapRemove(lobby, c)
               /\ deferred' = Append(deferred,
                                      [op |-> "despawn", e |-> lobby[c], comp |-> <<>>])
          ELSE UNCHANGED <<lobby, deferred>>
       /\ sent' = sent \o out
       /\ UNCHANGED nextEntity

\* One iteration of `for event in server_events.read()`.
HandleEvent ==
    /\ UNCHANGED <<clientVars, gameVars, extVars>>
    /\ pc = "events"
    /\ server_events # <<>>
    /\ LET event == Head(server_events)
       IN IF event.type = "ClientConnected"
          THEN HandleClientConnected(event.client_id)
          ELSE HandleClientDisconnected(event.client_id)
    /\ server_events' = Tail(server_events)
    /\ UNCHANGED <<pc, connected, cmdq, todo, cur, ent, bot_id, screen, next_screen, nStartGame, inputs>>

\* The event loop is over: `for client_id in server.clients_id()` starts.
StartCommands ==
    /\ UNCHANGED <<clientVars, gameVars, extVars>>
    /\ pc = "events"
    /\ server_events = <<>>
    /\ pc' = "commands"
    /\ todo' = connected
    /\ cur' = 0
    /\ UNCHANGED <<server_events, connected, cmdq, lobby, ent, deferred, nextEntity,
                   bot_id, screen, next_screen, sent, nStartGame,
                   inputs>>

\* The size test with the bound off by one.
LobbyTooSmallOffByOne(lob) == Cardinality(DOMAIN lob) = 0

\* `if lobby.players.len() == 1 { continue; }`
LobbyTooSmall(lob) == Cardinality(DOMAIN lob) = 1

\* all_players_ready_check: a lobby entry whose entity the players query does
\* not match (`players.get` is Err) is passed over.
AllPlayersReadyCheck(lob, world) ==
    \A c \in DOMAIN lob :
        lob[c] \in PlayersQuery(world) => world[lob[c]].is_ready

\* PlayerCommand::ToggleReady received from client c.
HandleToggleReady(c) ==
    LET found == c \in DOMAIN lobby /\ lobby[c] \in PlayersQuery(ent)
        world == IF found
                 THEN [ent EXCEPT ![lobby[c]].is_ready = ~ent[lobby[c]].is_ready]
                 ELSE ent
        ready == IF found
                 THEN <<BroadcastMessage(SetPlayerReady(lobby[c], world[lobby[c]].is_ready))>>
                 ELSE <<>>
        start == ~LobbyTooSmall(lobby) /\ AllPlayersReadyCheck(lobby, world)
        out == ready \o (IF start THEN <<BroadcastMessage(StartGame)>> ELSE <<>>)
    IN /\ ent' = world
       /\ sent' = sent \o out
       /\ next_screen' = IF start THEN "Gameplay" ELSE next_screen
       /\ nStartGame' = nStartGame + (IF start THEN 1 ELSE 0)

\* One iteration of `while let Some(message) = server.receive_message(client_id,
\* ClientChannel::Command)`: the channel of one client is drained before the
\* next client's; the order of the clients is the transport's.
HandleCommand(c) ==
    /\ UNCHANGED <<clientVars, gameVars, extVars>>
    /\ pc = "commands"
    /\ c \in todo
    /\ cur \in {0, c}
    /\ cmdq[c] # <<>>
    /\ Head(cmdq[c]) = "ToggleReady"
    /\ HandleToggleReady(c)
    /\ cmdq' = [cmdq EXCEPT ![c] = Tail(cmdq[c])]
    /\ IF Tail(cmdq[c]) = <<>>
       THEN cur' = 0 /\ todo' = todo \ {c}
       ELSE cur' = c /\ todo' = todo
    /\ UNCHANGED <<pc, server_events, connected, lobby, deferred, nextEntity, bot_id,
                   screen, inputs>>

\* The command buffers of the Update schedule are applied, in order.
RECURSIVE ApplyCommands(_, _)
ApplyCommands(world, cmds) ==
    IF cmds = <<>> THEN world
    ELSE LET cmd == Head(cmds)
             w == IF cmd.op = "spawn"
                  THEN MapInsert(world, cmd.e, cmd.comp)
                  ELSE MapRemove(world, cmd.e)
         IN ApplyCommands(w, Tail(cmds))

\* server_update_system returns; the frame's Update schedule ends.
EndUpdate ==
    /\ UNCHANGED <<clientVars, gameVars, extVars>>
    /\ pc = "commands"
    /\ cur = 0
    /\ \A c \in todo : cmdq[c] = <<>>
    /\ pc' = "idle"
    /\ todo' = {}
    /\ ent' = ApplyCommands(ent, deferred)
    /\ deferred' = <<>>
    /\ UNCHANGED <<server_events, connected, cmdq, cur, lobby, nextEntity, bot_id,
                   screen, next_screen, sent, nStartGame, inputs>>

\* spawn_bot on a press of B.  It is a system of the same Update schedule with
\* no order to server_update_system, whose queries never match a bot (it has
\* no MovementController), so its place in the frame is not observable: it is
\* taken between two frames, its spawn command applied.
SpawnBot ==
    /\ UNCHANGED <<clientVars, gameVars, extVars>>
    /\ pc = "idle"
    /\ bot_id < MaxBots
    /\ inputs < MaxInputs
    /\ LET client_id == bot_id
           player_entity == nextEntity
           out == <<BroadcastMessage(PlayerCreate(player_entity, client_id, TRUE))>>
       IN /\ bot_id' = bot_id + 1
          /\ nextEntity' = nextEntity + 1
          /\ ent' = MapInsert(ent, player_entity, BotPlayer(client_id))
          /\ lobby' = MapInsert(lobby, client_id, player_entity)
          /\ sent' = sent \o out
       /\ inputs' = inputs + 1
    /\ UNCHANGED <<pc, server_events, connected, cmdq, todo, cur, deferred, screen,
                   next_screen, nStartGame>>

\* ------------------------------------------------- transport and clients
\* The transport (renet, not part of the repository) hands the server its
\* events and the clients' commands before the frame starts: the environment
\* acts between two frames, and whatever it has queued by then is what the
\* next frame reads.

\* The transport accepts client c and reports ClientConnected.
ClientConnects(c) ==
    /\ UNCHANGED <<clientVars, gameVars, extVars>>
    /\ pc = "idle"
    /\ c \notin connected
    /\ inputs < MaxInputs
    /\ connected' = connected \cup {c}
    /\ server_events' = Append(server_events, [type |-> "ClientConnected", client_id |-> c])
    /\ inputs' = inputs + 1
    /\ UNCHANGED <<pc, cmdq, todo, cur, lobby, ent, deferred, nextEntity, bot_id, screen,
                   next_screen, sent, nStartGame>>

\* The transport drops client c and reports ClientDisconnected; the commands
\* the server had not yet received from it are lost.
ClientDisconnects(c) ==
    /\ UNCHANGED <<clientVars, gameVars, extVars>>
    /\ pc = "idle"
    /\ c \in connected
    /\ inputs < MaxInputs
    /\ connected' = connected \ {c}
    /\ server_events' = Append(server_events, [type |-> "ClientDisconnected", client_id |-> c])
    /\ cmdq' = [cmdq EXCEPT ![c] = <<>>]
    /\ inputs' = inputs + 1
    /\ UNCHANGED <<pc, todo, cur, lobby, ent, deferred, nextEntity, bot_id, screen,
                   next_screen, sent, nStartGame>>

\* The transport reports ClientDisconnected for a client the server holds no
\* lobby entry for (the handler's input is any client id).
AbsentDisconnect(c) ==
    /\ UNCHANGED <<clientVars, gameVars, extVars>>
    /\ pc = "idle"
    /\ c \notin connected
    /\ c \notin DOMAIN lobby
    /\ \A i \in 1..Len(server_events) : server_events[i].client_id # c
    /\ inputs < MaxInputs
    /\ server_events' = Append(server_events, [type |-> "ClientDisconnected", client_id |-> c])
    /\ inputs' = inputs + 1
    /\ UNCHANGED <<pc, connected, cmdq, todo, cur, lobby, ent, deferred, nextEntity,
                   bot_id, screen, next_screen, sent, nStartGame>>

\* client_send_player_commands: a ToggleReady of client c reaches the server.
SendToggleReady(c) ==
    /\ UNCHANGED <<clientVars, gameVars, extVars>>
    /\ pc = "idle"
    /\ c \in connected
    /\ inputs < MaxInputs
    /\ cmdq' = [cmdq EXCEPT ![c] = Append(cmdq[c], "ToggleReady")]
    /\ inputs' = inputs + 1
    /\ UNCHANGED <<pc, server_events, connected, todo, cur, lobby, ent, deferred,
                   nextEntity, bot_id, screen, next_screen, sent, nStartGame>>

ServerStep ==
    \/ BeginFrame
    \/ HandleEvent
    \/ StartCommands
    \/ \E c \in ClientIds : HandleCommand(c)
    \/ EndUpdate

Environment ==
    \/ \E c \in ClientIds : ClientConnects(c)
    \/ \E c \in ClientIds : ClientDisconnects(c)
    \/ \E c \in ClientIds : AbsentDisconnect(c)
    \/ \E c \in ClientIds : SendToggleReady(c)
    \/ SpawnBot

\* Spec: the server against any clients.  The clients' side of the reliable
\* channel is not part of it: what the server sends is observed in `sent`.
Next == ServerStep \/ Environment

Spec == Init /\ [][Next]_vars

\* The frame loop never stops: Bevy runs the schedules again and again.
FairSpec == Spec /\ WF_vars(ServerStep)

\* ------------------------------------------------- SpecE2E: two clients
\* The two clients of the end-to-end scenario.
E2EClients == {c \in ClientIds : c <= 100 + 2}

\* client_sync_players of client c: whether the drained messages hold a
\* ServerMessages::StartGame (`next_screen.set(Screen::Gameplay)`).
HasStartGame(msgs) == \E i \in 1..Len(msgs) : msgs[i].t = "StartGame"

\* One frame of client c: StateTransition, then client_sync_players drains the
\* ServerMessages channel.
ClientFrame(c) ==
    /\ pc = "idle"
    /\ c \in connected
    /\ inbox[c] # <<>> \/ cli[c].next # "None"
    /\ cli' = [cli EXCEPT ![c] =
                 [screen |-> StateTransition(cli[c].screen, cli[c].next),
                  next |-> IF HasStartGame(inbox[c]) THEN "Gameplay" ELSE "None"]]
    /\ inbox' = [inbox EXCEPT ![c] = <<>>]
    /\ UNCHANGED <<pc, server_events, connected, cmdq, todo, cur, lobby, ent, deferred,
                   nextEntity, bot_id, screen, next_screen, sent, nStartGame, nToggle,
                   inputs, gameVars, extVars>>

\* A client connects in a frame of its own: no other connection is reported
\* in the same frame.
E2EConnect(c) ==
    /\ pc = "idle"
    /\ c \in E2EClients
    /\ c \notin connected
    /\ server_events = <<>>
    /\ \A d \in connected : d \in DOMAIN lobby
    /\ connected' = connected \cup {c}
    /\ server_events' = Append(server_events, [type |-> "ClientConnected", client_id |-> c])
    /\ UNCHANGED <<pc, cmdq, todo, cur, lobby, ent, deferred, nextEntity, bot_id, screen,
                   next_screen, sent, nStartGame, inputs, clientVars, gameVars, extVars>>

\* player_read_input (run_if in_state(Screen::Lobby)): Space in the lobby
\* sends ToggleReady; each client of the scenario does so once.
E2EToggleReady(c) ==
    /\ pc = "idle"
    /\ c \in connected
    /\ cli[c].screen = "Lobby"
    /\ nToggle[c] = 0
    /\ cmdq' = [cmdq EXCEPT ![c] = Append(cmdq[c], "ToggleReady")]
    /\ nToggle' = [nToggle EXCEPT ![c] = 1]
    /\ UNCHANGED <<pc, server_events, connected, todo, cur, lobby, ent, deferred,
                   nextEntity, bot_id, screen, next_screen, sent, nStartGame, inputs,
                   inbox, cli, gameVars, extVars>>

\* The end of the frame with the transport's send_packets: what the frame
\* sent reaches the clients' channels.
EndUpdateSend ==
    /\ pc = "commands"
    /\ cur = 0
    /\ \A c \in todo : cmdq[c] = <<>>
    /\ pc' = "idle"
    /\ todo' = {}
    /\ ent' = ApplyCommands(ent, deferred)
    /\ deferred' = <<>>
    /\ inbox' = Deliver(inbox, sent)
    /\ UNCHANGED <<server_events, connected, cmdq, cur, lobby, nextEntity, bot_id,
                   screen, next_screen, sent, nStartGame, inputs, cli, nToggle,
                   gameVars, extVars>>

E2ENext ==
    \/ BeginFrame
    \/ HandleEvent
    \/ StartCommands
    \/ \E c \in ClientIds : HandleCommand(c)
    \/ EndUpdateSend
    \/ \E c \in ClientIds : E2EConnect(c)
    \/ \E c \in ClientIds : E2EToggleReady(c)
    \/ \E c \in ClientIds : ClientFrame(c)

SpecE2E == Init /\ [][E2ENext]_vars

\* ------------------------------------------------- SpecGame: projectiles
\* Lengths are integers: one world unit is Scale; positions and sizes are
\* pairs <<x, y>>.  The f32 rounding of the code is not modelled.
Scale == 32 * 5

\* The components of a direction (Vec2) are kept in thousandths: a unit
\* vector along an axis is <<Unit, 0>>, a normalized diagonal <<Diagonal, Diagonal>>.
Unit == 1000
Diagonal == 707

PROJECTILE_MOVE_SPEED == 500
PLAYER_BASE_COLLIDER_SIZE == <<14 * Scale, 10 * Scale>>
ProjectileColliderSize == <<12 * Scale, 18 * Scale>>
CoinColliderSize == <<20 * Scale, 24 * Scale>>

\* projectile.direction * projectile.speed * time.delta_secs() in FixedUpdate,
\* whose timestep is Bevy's default of 1/64 s.
MovementThisFrame(direction) ==
    <<(direction[1] * PROJECTILE_MOVE_SPEED * Scale) \div (64 * Unit),
      (direction[2] * PROJECTILE_MOVE_SPEED * Scale) \div (64 * Unit)>>

\* check_collision with inclusive comparisons: rectangles that only touch
\* would collide.
CheckCollisionInclusive(a, a_size, b, b_size) ==
    /\ 2 * a[1] - a_size[1] <= 2 * b[1] + b_size[1]
    /\ 2 * a[1] + a_size[1] >= 2 * b[1] - b_size[1]
    /\ 2 * a[2] - a_size[2] <= 2 * b[2] + b_size[2]
    /\ 2 * a[2] + a_size[2] >= 2 * b[2] - b_size[2]

\* check_collision; a_min = a - size / 2 and the like are compared doubled.
CheckCollision(a, a_size, b, b_size) ==
    /\ 2 * a[1] - a_size[1] < 2 * b[1] + b_size[1]
    /\ 2 * a[1] + a_size[1] > 2 * b[1] - b_size[1]
    /\ 2 * a[2] - a_size[2] < 2 * b[2] + b_size[2]
    /\ 2 * a[2] + a_size[2] > 2 * b[2] - b_size[2]

\* The penalty without the cap at the score.
PenaltyFlat(score) == 5

\* i64::min(5, player.score)
Penalty(score) == IF score < 5 THEN score ELSE 5

\* calculate_score_growth applied to the base size:
\* PLAYER_BASE_COLLIDER_SIZE * (score as f32 * 0.1)
ScoredColliderSize(score) ==
    <<(PLAYER_BASE_COLLIDER_SIZE[1] * score) \div 10,
      (PLAYER_BASE_COLLIDER_SIZE[2] * score) \div 10>>

PlayerCollider(size) ==
    [size |-> size, collides_with_player |-> TRUE, collides_with_projectile |-> TRUE]
ProjectileCollider ==
    [size |-> ProjectileColliderSize, collides_with_player |-> TRUE,
     collides_with_projectile |-> TRUE]
CoinCollider ==
    [size |-> CoinColliderSize, collides_with_player |-> TRUE,
     collides_with_projectile |-> FALSE]

\* generate_world: the pond at the origin and the walls of wall_base_pos[0] and
\* wall_base_pos[1], with x_offset 1.0 and wall_type 0: the static colliders
\* on the x axis.
PondCollider ==
    [size |-> <<110 * Scale, 80 * Scale>>, collides_with_player |-> TRUE,
     collides_with_projectile |-> FALSE]
WallCollider ==
    [size |-> <<(64 * Scale * 3) \div 2, (48 * Scale * 3) \div 2>>,
     collides_with_player |-> TRUE, collides_with_projectile |-> TRUE]
WestWallPosition == <<(0 - 300) * Scale, 0>>
EastWallPosition == <<300 * Scale, 0>>

\* SPAWN_POSITIONS[1]
BotPosition == <<250 * Scale, 0>>

\* The entities of the snapshot SpecGame starts from.
PondEntity == 1
WestWallEntity == PondEntity + 1
EastWallEntity == PondEntity + 2
BotEntities == {EastWallEntity + 1, EastWallEntity + 2}
HumanEntity == EastWallEntity + 3
HumanClient == 101

\* Where the human player stands: on the x axis between the pond and the bots.
HumanPositions == {<<180 * Scale, 0>>}

\* bot_dir: the unit vectors along the x axis, out of the random directions.
BotDirs == {<<Unit, 0>>, <<0 - Unit, 0>>}

\* rng.gen_range(-200.0..200.0) for x_offset and y_offset of a dropped coin.
CoinOffsets == {<<(0 - 100) * Scale, 100 * Scale>>, <<0, 0>>}

Projectile(owner, direction) ==
    [kind |-> "projectile", owner |-> owner, direction |-> direction]
Coin == [kind |-> "coin"]
StaticObject(k) == [kind |-> "object", id |-> k]

Projectiles(world) == {e \in DOMAIN world : world[e].kind = "projectile"}
Coins(world) == {e \in DOMAIN world : world[e].kind = "coin"}

\* The broadcasts that announced the projectiles and coins alive when the
\* model starts, in the order of their ids.
BroadcastsBefore ==
    LET live == SetToSeq(Projectiles(ent) \cup Coins(ent))
    IN [i \in 1..Len(live) |->
           IF ent[live[i]].kind = "projectile" THEN SpawnProjectile(live[i])
                                               ELSE SpawnCoin(live[i])]

\* A game in progress: two bots that were given the same spawn position, one
\* human player with any score up to MaxScore and the collider that goes with
\* it (the spawn collider if no score event has touched the player yet).
InitGameIn(scr, scores, ready) ==
    /\ pc = "idle"
    /\ server_events = <<>>
    /\ connected = {HumanClient}
    /\ cmdq = [c \in ClientIds |-> <<>>]
    /\ todo = {}
    /\ cur = 0
    /\ lobby = (0 :> (EastWallEntity + 1)) @@ (1 :> (EastWallEntity + 2)) @@ (HumanClient :> HumanEntity)
    /\ \E s \in scores :
       \E size \in {ScoredColliderSize(s)} \cup
                   (IF s = 0 THEN {PLAYER_BASE_COLLIDER_SIZE} ELSE {}) :
       \E hp \in HumanPositions :
          /\ ent = (PondEntity :> StaticObject(1)) @@ (WestWallEntity :> StaticObject(3))
                   @@ (EastWallEntity :> StaticObject(3))
                   @@ [b \in BotEntities |-> BotPlayer(b - EastWallEntity - 1)]
                   @@ (HumanEntity :> [HumanPlayer(HumanClient) EXCEPT
                                          !.score = s, !.is_ready = ready])
          /\ translation = (PondEntity :> <<0, 0>>) @@ (WestWallEntity :> WestWallPosition)
                           @@ (EastWallEntity :> EastWallPosition)
                           @@ [b \in BotEntities |-> BotPosition]
                           @@ (HumanEntity :> hp)
          /\ collider = (PondEntity :> PondCollider) @@ (WestWallEntity :> WallCollider)
                        @@ (EastWallEntity :> WallCollider)
                        @@ (HumanEntity :> PlayerCollider(size))
    /\ deferred = <<>>
    /\ nextEntity = HumanEntity + 1
    /\ bot_id = 2
    /\ screen = scr
    /\ next_screen = "None"
    /\ sent = <<>>
    /\ inbox = [c \in ClientIds |-> <<>>]
    /\ cli = [c \in ClientIds |-> [screen |-> "Lobby", next |-> "None"]]
    /\ nStartGame = IF scr = "Gameplay" THEN 1 ELSE 0
    /\ nToggle = [c \in ClientIds |-> 0]
    /\ inputs = 0
    /\ score_events = <<>>
    /\ removed = <<>>
    /\ nDespawn = <<>>
    /\ broadcasts = BroadcastsBefore
    /\ shots = [b \in BotEntities |-> 0]
    /\ ticks = 0
    /\ ExtIdle

\* SpecGame starts in Gameplay, the human player ready, with any score.
InitGame == InitGameIn("Gameplay", 0..MaxScore, TRUE)

\* The lobby's variables that no frame of the game changes.
lobbyVars_noext == <<server_events, connected, cmdq, todo, cur, lobby, deferred, bot_id,
                     screen, next_screen, nStartGame, inputs, clientVars>>

\* What no action of SpecGame changes.
lobbyVars == <<server_events, connected, cmdq, todo, cur, lobby, deferred, bot_id,
               screen, next_screen, nStartGame, inputs, clientVars, extVars>>

\* A frame starts; RunFixedMainLoop comes first.
GameBeginFrame ==
    /\ pc = "idle"
    /\ pc' = "fixed"
    /\ ticks' = 0
    /\ sent' = <<>>
    /\ UNCHANGED <<ent, nextEntity, translation, collider, score_events, removed,
                   nDespawn, broadcasts, shots, lobbyVars>>

\* Every collider of the worlds modelled lies well within MaxFlightX world
\* units of the origin on the x axis and MaxFlightY on the y axis: a
\* coordinate beyond that is kept at it, a projectile out there overlaps
\* nothing, wherever exactly it is.
FarOut(x, limit) ==
    IF x > limit * Scale THEN limit * Scale
    ELSE IF x < 0 - limit * Scale THEN 0 - limit * Scale
    ELSE x

\* proj_transform.translation + movement_this_frame
Prospective(e) ==
    <<FarOut(translation[e][1] + MovementThisFrame(ent[e].direction)[1], MaxFlightX),
      FarOut(translation[e][2] + MovementThisFrame(ent[e].direction)[2], MaxFlightY)>>

\* The hit condition without `projectile.owner != collider_entity`.
QualifyingOwnerToo(e) ==
    {c \in (DOMAIN collider \cap DOMAIN translation) \ Projectiles(ent) :
        /\ collider[c].collides_with_projectile
        /\ CheckCollision(Prospective(e), collider[e].size, translation[c], collider[c].size)}

\* The hit condition with collides_with_player in the place of
\* collides_with_projectile.
QualifyingPlayerColliders(e) ==
    {c \in (DOMAIN collider \cap DOMAIN translation) \ Projectiles(ent) :
        /\ collider[c].collides_with_player
        /\ ent[e].owner # c
        /\ CheckCollision(Prospective(e), collider[e].size, translation[c], collider[c].size)}

\* The entities of the `colliders` query (Without<Projectile>) that satisfy
\* the hit condition for projectile e.
Qualifying(e) ==
    {c \in (DOMAIN collider \cap DOMAIN translation) \ Projectiles(ent) :
        /\ collider[c].collides_with_projectile
        /\ ent[e].owner # c
        /\ CheckCollision(Prospective(e), collider[e].size, translation[c], collider[c].size)}

\* `for _ in 0..penalty`: the number of iterations.
CoinsDropped(penalty) == IF penalty > 0 THEN penalty ELSE 0

\* A removal system that broadcasts nothing.
ProjectileOnRemovalNone(rem) == <<>>

\* projectile_on_removal_system: one DespawnEntity per removal it reads.
ProjectileOnRemoval(rem) ==
    [i \in 1..Len(rem) |-> BroadcastMessage(DespawnEntity(rem[i]))]

\* move_projectiles when no projectile hits: every projectile moves.
MoveAll ==
    /\ translation' = [e \in DOMAIN translation |->
                          IF e \in Projectiles(ent) THEN Prospective(e) ELSE translation[e]]
    /\ UNCHANGED <<ent, collider, nextEntity, score_events, removed, sent, broadcasts>>

\* move_projectiles when projectile h hits collider c: the projectiles in
\* `moved` came earlier in the query's iteration and have moved; h is
\* despawned and the function returns.  The ScoreEvent carries, as `seen`,
\* the score the penalty was computed from (for the properties only).
HitAndReturn(h, c, moved, offset) ==
    LET is_player == ent[c].kind = "player"
        penalty == IF is_player THEN Penalty(ent[c].score) ELSE 0
        n == CoinsDropped(penalty)
        coins == nextEntity..(nextEntity + n - 1)
    IN /\ score_events' =
             IF is_player
             THEN Append(score_events,
                         [player |-> c, delta |-> 0 - penalty, seen |-> ent[c].score])
             ELSE score_events
       /\ nextEntity' = nextEntity + n
       /\ ent' = [e \in (DOMAIN ent \ {h}) \cup coins |->
                    IF e \in coins THEN Coin ELSE ent[e]]
       /\ translation' = [e \in (DOMAIN translation \ {h}) \cup coins |->
                            IF e \in coins
                            THEN <<translation[c][1] + offset[1], translation[c][2] + offset[2]>>
                            ELSE IF e \in moved THEN Prospective(e) ELSE translation[e]]
       /\ collider' = [e \in (DOMAIN collider \ {h}) \cup coins |->
                         IF e \in coins THEN CoinCollider ELSE collider[e]]
       /\ LET out == [i \in 1..n |-> BroadcastMessage(SpawnCoin(nextEntity + i - 1))]
          IN /\ sent' = sent \o out
             /\ broadcasts' = Logged(out)
       /\ removed' = Append(removed, h)

\* One run of the FixedUpdate schedule: move_projectiles, then its commands
\* are applied.  The order in which the query yields the projectiles, and the
\* colliders, is the storage's: any order.
FixedTick ==
    /\ pc = "fixed"
    /\ ticks < MaxFixedTicks
    /\ ticks' = ticks + 1
    /\ LET hitting == {e \in Projectiles(ent) : Qualifying(e) # {}}
       IN IF hitting = {}
          THEN MoveAll
          ELSE \E h \in hitting : \E c \in Qualifying(h) :
               \E moved \in SUBSET (Projectiles(ent) \ hitting) :
               \E offset \in CoinOffsets :
                  HitAndReturn(h, c, moved, offset)
    /\ UNCHANGED <<pc, nDespawn, shots, lobbyVars>>

\* RunFixedMainLoop is over; the Update schedule starts.
GameStartUpdate ==
    /\ pc = "fixed"
    /\ pc' = "update"
    /\ UNCHANGED <<ent, nextEntity, sent, gameVars, lobbyVars>>

\* bot_autocast for bot b whose auto_cast timer has just finished (once a
\* second, so at most once in a frame).
\* bot_dir, a random unit vector, is drawn from dirs.
BotAutocastIn(b, dirs) ==
    /\ pc = "update"
    /\ b \in DOMAIN ent
    /\ ent[b].kind = "player" /\ ent[b].bot
    /\ shots[b] < MaxShots
    /\ \A i \in 1..Len(sent) :
          sent[i].m.t = "SpawnProjectile" => ent[sent[i].m.entity].owner # b
    /\ \E bot_dir \in dirs :
          LET projectile_entity == nextEntity
              offset_distance == 50 * Scale
              spawn_position ==
                  <<translation[b][1] + (bot_dir[1] * offset_distance) \div Unit,
                    translation[b][2] + (bot_dir[2] * offset_distance) \div Unit>>
          IN /\ ent' = MapInsert(ent, projectile_entity, Projectile(b, bot_dir))
             /\ translation' = MapInsert(translation, projectile_entity, spawn_position)
             /\ collider' = MapInsert(collider, projectile_entity, ProjectileCollider)
             /\ nDespawn' = MapInsert(nDespawn, projectile_entity, 0)
             /\ sent' = Append(sent, BroadcastMessage(SpawnProjectile(projectile_entity)))
             /\ broadcasts' =
                   Logged(<<BroadcastMessage(SpawnProjectile(projectile_entity))>>)
    /\ nextEntity' = nextEntity + 1
    /\ shots' = [shots EXCEPT ![b] = shots[b] + 1]
    /\ UNCHANGED <<pc, score_events, removed, ticks, lobbyVars>>

\* bot_autocast with the directions of SpecGame.
BotAutocast(b) == BotAutocastIn(b, BotDirs)

\* One iteration of `for event in events.read()` in handle_score_event.
HandleScoreEvent ==
    /\ pc = "update"
    /\ score_events # <<>>
    /\ LET event == Head(score_events)
       IN IF event.player \in DOMAIN ent /\ ent[event.player].kind = "player"
          THEN LET score == ent[event.player].score + event.delta
               IN /\ ent' = [ent EXCEPT ![event.player].score = score]
                  /\ collider' = MapInsert(collider, event.player,
                                           PlayerCollider(ScoredColliderSize(score)))
          ELSE UNCHANGED <<ent, collider>>
    /\ score_events' = Tail(score_events)
    /\ UNCHANGED <<pc, nextEntity, sent, translation, removed, nDespawn, broadcasts, shots, ticks,
                   lobbyVars>>

\* The Update schedule ends: handle_score_event has read every event.
GameEndUpdate ==
    /\ pc = "update"
    /\ score_events = <<>>
    /\ pc' = "post"
    /\ UNCHANGED <<ent, nextEntity, sent, gameVars, lobbyVars>>

\* PostUpdate: projectile_on_removal_system.
PostUpdate ==
    /\ pc = "post"
    /\ pc' = "idle"
    /\ LET out == ProjectileOnRemoval(removed)
       IN /\ sent' = sent \o out
          /\ broadcasts' = Logged(out)
          /\ nDespawn' = [e \in DOMAIN nDespawn |->
                            nDespawn[e] + Cardinality({i \in 1..Len(out) :
                                                          out[i].m = DespawnEntity(e)})]
    /\ removed' = <<>>
    /\ UNCHANGED <<ent, nextEntity, translation, collider, score_events, shots, ticks,
                   lobbyVars>>

GameNext ==
    \/ GameBeginFrame
    \/ FixedTick
    \/ GameStartUpdate
    \/ \E b \in BotEntities : BotAutocast(b)
    \/ HandleScoreEvent
    \/ GameEndUpdate
    \/ PostUpdate

SpecGame == InitGame /\ [][GameNext]_vars

\* --------------------------------------- SpecFlight: a shot that hits nothing
\* SpecGame with bots that fire west, at the human player, or north, where
\* this world (like a world whose random walls and trees fell elsewhere) has
\* no collider.
FlightDirs == {<<0 - Unit, 0>>, <<0, Unit>>}

FlightNext ==
    \/ GameBeginFrame
    \/ FixedTick
    \/ GameStartUpdate
    \/ \E b \in BotEntities : BotAutocastIn(b, FlightDirs)
    \/ HandleScoreEvent
    \/ GameEndUpdate
    \/ PostUpdate

SpecFlight == InitGame /\ [][FlightNext]_vars

\* The frame loop never stops, and the fixed timestep runs FixedUpdate once
\* for every 1/64 s of time elapsed: again and again.
FairSpecFlight == SpecFlight /\ WF_vars(FlightNext) /\ SF_vars(FixedTick)

\* ------------------------------------------------ SpecMove: the movers
PLAYER_MOVE_SPEED == 300

\* `b as i8`
AsInt(b) == IF b THEN 1 ELSE 0

\* PlayerInput { up, down, left, right }
Input(up, down, left, right) ==
    [up |-> up, down |-> down, left |-> left, right |-> right]

\* PlayerInput::default()
NoInput == Input(FALSE, FALSE, FALSE, FALSE)

\* The Input messages the clients of SpecMove send: left, or up and right.
InputValues == {Input(FALSE, FALSE, TRUE, FALSE), Input(TRUE, FALSE, FALSE, TRUE)}

\* The PlayerInput of MoverA when SpecMove starts: none, up, or up and
\* right; of MoverB: right.
MoverAInputs == {NoInput, Input(TRUE, FALSE, FALSE, FALSE), Input(TRUE, FALSE, FALSE, TRUE)}
MoverBInputs == {Input(FALSE, FALSE, FALSE, TRUE)}

\* Vec2::normalize_or_zero of a vector whose components are -1, 0 or 1.
NormalizeOrZero(v) ==
    IF v[1] = 0 \/ v[2] = 0
    THEN <<v[1] * Unit, v[2] * Unit>>
    ELSE <<v[1] * Diagonal, v[2] * Diagonal>>

\* move_players_system: the direction it computes from a PlayerInput.
InputDirection(input) ==
    NormalizeOrZero(<<AsInt(input.right) - AsInt(input.left),
                      AsInt(input.up) - AsInt(input.down)>>)

\* n / d rounded towards zero.
Quotient(n, d) == IF n >= 0 THEN n \div d ELSE 0 - ((0 - n) \div d)

\* controller.max_speed * controller.intent * time.delta_secs(), for a frame
\* of 1/64 s and the max_speed the connect handler gives every player.
PlayerMovement(dir) ==
    <<Quotient(dir[1] * PLAYER_MOVE_SPEED * Scale, 64 * Unit),
      Quotient(dir[2] * PLAYER_MOVE_SPEED * Scale, 64 * Unit)>>

\* The entities of the snapshot SpecMove starts from: a wall, a coin, a bot
\* and a projectile it has fired, the player of client 101 and the player of
\* client 102.
MoveWallEntity == 1
MoveCoinEntity == 2
MoveBotEntity == 3
MoveBotProjectile == 4
MoverA == 5
MoverB == 6
ClientA == 101
ClientB == 102

MoveWallPosition == <<58 * Scale, 0>>
MoveCoinPosition == <<(0 - 10) * Scale, 0>>
MoveBotProjectilePosition == <<(0 - 50) * Scale, 0>>

\* Where MoverA stands: west of the wall, one step away from it, south of
\* it, one step away from it, or south-west of its south-west corner, one
\* step away from it on either axis.
MoverACorner == <<2 * Scale, (0 - 42) * Scale>>
MoverAPositions == {<<0, 0>>, <<58 * Scale, (0 - 42) * Scale>>, MoverACorner}

\* Where MoverB stands: on the coin, or one step west of it.
MoverBPositions == {<<(0 - 25) * Scale, 0>>, <<(0 - 29) * Scale, 0>>}

\* The scores MoverA may have: none yet (and the collider of its spawn), or
\* MoverAScore.
MoverAScore == 40

\* A game in progress.  Every player's intent is what move_players_system
\* made of its PlayerInput in the last frame.  Client 102 may have left; the
\* bot's projectile, if there is one, flies east, towards MoverB and the coin.
InitMove ==
    /\ pc = "idle"
    /\ server_events = <<>>
    /\ cmdq = [c \in ClientIds |-> <<>>]
    /\ todo = {}
    /\ cur = 0
    /\ \E with_b \in BOOLEAN, with_projectile \in BOOLEAN :
       \E pa \in MoverAPositions, pb \in MoverBPositions :
       \E sa \in {0, MoverAScore} :
       \E ia \in MoverAInputs, ib \in MoverBInputs :
          \* next to the corner MoverA is followed alone, as it was spawned
          /\ pa = MoverACorner => (~with_b /\ ~with_projectile /\ sa = 0)
          /\ LET movers == {MoverA} \cup (IF with_b THEN {MoverB} ELSE {})
                 shot == IF with_projectile THEN {MoveBotProjectile} ELSE {}
                 all == {MoveWallEntity, MoveCoinEntity, MoveBotEntity} \cup movers \cup shot
             IN
             /\ connected = {ClientA} \cup (IF with_b THEN {ClientB} ELSE {})
             /\ lobby = [c \in {0} \cup connected |->
                           IF c = 0 THEN MoveBotEntity
                           ELSE IF c = ClientA THEN MoverA ELSE MoverB]
             /\ ent = [e \in all |->
                         CASE e = MoveWallEntity -> StaticObject(3)
                           [] e = MoveCoinEntity -> Coin
                           [] e = MoveBotEntity -> BotPlayer(0)
                           [] e = MoveBotProjectile -> Projectile(MoveBotEntity, <<Unit, 0>>)
                           [] e = MoverA -> [HumanPlayer(ClientA) EXCEPT
                                               !.score = sa, !.is_ready = TRUE]
                           [] OTHER -> [HumanPlayer(ClientB) EXCEPT !.is_ready = TRUE]]
             /\ translation = [e \in all |->
                         CASE e = MoveWallEntity -> MoveWallPosition
                           [] e = MoveCoinEntity -> MoveCoinPosition
                           [] e = MoveBotEntity -> BotPosition
                           [] e = MoveBotProjectile -> MoveBotProjectilePosition
                           [] e = MoverA -> pa
                           [] OTHER -> pb]
             /\ collider = [e \in all \ {MoveBotEntity} |->
                         CASE e = MoveWallEntity -> WallCollider
                           [] e = MoveCoinEntity -> CoinCollider
                           [] e = MoveBotProjectile -> ProjectileCollider
                           [] e = MoverA ->
                                PlayerCollider(IF sa = 0 THEN PLAYER_BASE_COLLIDER_SIZE
                                               ELSE ScoredColliderSize(sa))
                           [] OTHER -> PlayerCollider(PLAYER_BASE_COLLIDER_SIZE)]
             /\ player_input = [e \in movers |-> IF e = MoverA THEN ia ELSE ib]
             /\ intent = [e \in movers |-> InputDirection(IF e = MoverA THEN ia ELSE ib)]
             /\ nDespawn = [e \in shot |-> 0]
             /\ broadcasts = BroadcastsBefore
    /\ deferred = <<>>
    /\ nextEntity = MoverB + 1
    /\ bot_id = 1
    /\ screen = "Gameplay"
    /\ next_screen = "None"
    /\ sent = <<>>
    /\ inbox = [c \in ClientIds |-> <<>>]
    /\ cli = [c \in ClientIds |-> [screen |-> "Lobby", next |-> "None"]]
    /\ nStartGame = 1
    /\ nToggle = [c \in ClientIds |-> 0]
    /\ inputs = 0
    /\ score_events = <<>>
    /\ removed = <<>>
    /\ shots = <<>>
    /\ ticks = 0
    /\ CallIdle
    /\ inputq = [c \in ClientIds |-> <<>>]
    /\ rx_input = [c \in ClientIds |-> <<>>]
    /\ ran = {}
    /\ movement_data = <<>>
    /\ nClaims = <<>>
    /\ frames = 0
    /\ MirrorIdle

\* What the systems of the frame leave alone.
serverVars == <<server_events, connected, todo, cur, lobby, bot_id, screen, next_screen,
                nStartGame, clientVars, call, mirrorVars>>

\* A client's Input message reaches the server.  Messages a client sent
\* before it left may still arrive.
ReceiveInput(c) ==
    /\ pc = "idle"
    /\ inputs < MaxMoveInputs
    /\ inputs' = inputs + 1
    /\ \E input \in InputValues : inputq' = [inputq EXCEPT ![c] = Append(inputq[c], input)]
    /\ UNCHANGED <<pc, cmdq, ent, deferred, nextEntity, sent, gameVars, serverVars, intent,
                   player_input, rx_input, ran, movement_data, nClaims, frames>>

\* A client's BasicAttack reaches the server.
ReceiveBasicAttack(c) ==
    /\ pc = "idle"
    /\ c \in connected
    /\ inputs < MaxMoveInputs
    /\ inputs' = inputs + 1
    /\ cmdq' = [cmdq EXCEPT ![c] = Append(cmdq[c], "BasicAttack")]
    /\ UNCHANGED <<pc, ent, deferred, nextEntity, sent, gameVars, serverVars, moveVars>>

\* A frame starts; RunFixedMainLoop comes first.
MoveBeginFrame ==
    /\ pc = "idle"
    /\ frames < MaxFrames
    /\ frames' = frames + 1
    /\ pc' = "fixed"
    /\ ticks' = 0
    /\ sent' = <<>>
    /\ ran' = {}
    /\ rx_input' = [c \in ClientIds |-> <<>>]
    /\ UNCHANGED <<cmdq, ent, deferred, nextEntity, translation, collider, score_events,
                   removed, nDespawn, broadcasts, shots, inputs, serverVars, intent, player_input,
                   inputq, movement_data, nClaims>>

\* BasicAttack without the test of the intent.
AttacksWhateverIntent(c) ==
    IF /\ c \in DOMAIN lobby
       /\ lobby[c] \in PlayersQuery(ent)
    THEN Cardinality({i \in 1..Len(cmdq[c]) : cmdq[c][i] = "BasicAttack"})
    ELSE 0

\* server_update_system, PlayerCommand::BasicAttack: how many projectiles the
\* commands waiting on client c's Command channel spawn.
Attacks(c) ==
    IF /\ c \in DOMAIN lobby
       /\ lobby[c] \in PlayersQuery(ent)
       /\ intent[lobby[c]] # <<0, 0>>
    THEN Cardinality({i \in 1..Len(cmdq[c]) : cmdq[c][i] = "BasicAttack"})
    ELSE 0

\* The spawns server_update_system queues for the clients cs, the first of
\* them on entity `first`.
RECURSIVE AttackCommands(_, _)
AttackCommands(cs, first) ==
    IF cs = <<>> THEN <<>>
    ELSE LET c == Head(cs)
             player_entity == lobby[c]
             player_dir == intent[player_entity]
             offset_distance == 20 * Scale
             spawn_position ==
                 <<translation[player_entity][1]
                     + Quotient(player_dir[1] * offset_distance, Unit),
                   translation[player_entity][2]
                     + Quotient(player_dir[2] * offset_distance, Unit)>>
         IN [i \in 1..Attacks(c) |->
                [op |-> "spawn_projectile", e |-> first + i - 1,
                 owner |-> player_entity, direction |-> player_dir,
                 at |-> spawn_position]]
            \o AttackCommands(Tail(cs), first + Attacks(c))

\* ClientChannel::Input of client c: only the first message is kept.
InputInsertsFirstOnly(c) ==
    IF c \in DOMAIN lobby /\ inputq[c] # <<>>
    THEN <<[op |-> "insert_input", e |-> lobby[c], input |-> inputq[c][1]]>>
    ELSE <<>>

\* ClientChannel::Input of client c: one queued insert of PlayerInput per
\* message, in the order of arrival.
InputInserts(c) ==
    IF c \in DOMAIN lobby
    THEN [i \in 1..Len(inputq[c]) |->
             [op |-> "insert_input", e |-> lobby[c], input |-> inputq[c][i]]]
    ELSE <<>>

RECURSIVE InputCommands(_)
InputCommands(cs) ==
    IF cs = <<>> THEN <<>>
    ELSE InputInserts(Head(cs)) \o InputCommands(Tail(cs))

\* server_update_system during the game: no transport event; for every
\* connected client the Command channel, then the Input channel, is drained.
ServerUpdateSystem ==
    /\ pc = "update"
    /\ "server_update" \notin ran
    /\ ran' = ran \cup {"server_update"}
    /\ LET cs == SetToSeq(connected)
           spawns == AttackCommands(cs, nextEntity)
       IN /\ deferred' = deferred \o spawns \o InputCommands(cs)
          /\ nextEntity' = nextEntity + Len(spawns)
          /\ LET out == [i \in 1..Len(spawns) |->
                            BroadcastMessage(SpawnProjectile(spawns[i].e))]
             IN /\ sent' = sent \o out
                /\ broadcasts' = Logged(out)
    /\ cmdq' = [c \in ClientIds |-> IF c \in connected THEN <<>> ELSE cmdq[c]]
    /\ inputq' = [c \in ClientIds |-> IF c \in connected THEN <<>> ELSE inputq[c]]
    /\ rx_input' = [c \in ClientIds |-> IF c \in connected THEN inputq[c] ELSE <<>>]
    /\ UNCHANGED <<pc, ent, translation, collider, score_events, removed, nDespawn, shots,
                   ticks, inputs, serverVars, intent, player_input, movement_data,
                   nClaims, frames>>

\* move_players_system
MovePlayers ==
    /\ pc = "update"
    /\ "move_players" \notin ran
    /\ ran' = ran \cup {"move_players"}
    /\ intent' = [e \in DOMAIN intent |->
                    IF e \in DOMAIN player_input
                    THEN InputDirection(player_input[e]) ELSE intent[e]]
    /\ UNCHANGED <<pc, cmdq, ent, deferred, nextEntity, sent, gameVars, inputs,
                   serverVars, player_input, inputq, rx_input, movement_data, nClaims,
                   frames>>

\* The orders in which a query may yield the entities of S.
Orders(S) ==
    {s \in [1..Cardinality(S) -> S] : \A i, j \in DOMAIN s : i # j => s[i] # s[j]}

\* Two of them: by entity index, upwards and downwards.
Reverse(s) == [i \in DOMAIN s |-> s[Len(s) + 1 - i]]

StorageOrders(S) == {SetToSeq(S), Reverse(SetToSeq(S))}

\* apply_movement, first loop: movement_data.  `colliders` is the order in
\* which colliders.iter_mut() yields the entities: the storage's, the same for
\* every mover of the run, since no command is applied before the run ends.
ApplyMovementStart ==
    /\ pc = "update"
    /\ "apply_movement" \notin ran
    /\ pc' = "moving"
    /\ \E order \in Orders(DOMAIN intent \cap DOMAIN collider) :
       \E ks \in StorageOrders(DOMAIN collider \cap DOMAIN translation) :
          movement_data' =
              [i \in DOMAIN order |->
                  [entity |-> order[i], t |-> translation[order[i]],
                   c |-> collider[order[i]],
                   movement_this_frame |-> PlayerMovement(intent[order[i]]),
                   colliders |-> ks]]
    /\ UNCHANGED <<cmdq, ent, deferred, nextEntity, sent, gameVars, inputs, serverVars,
                   intent, player_input, inputq, rx_input, ran, nClaims, frames>>

\* The loop over `colliders` with a mask that is cleared on both axes by a
\* hit along either.
RECURSIVE SweepBlockAll(_, _, _)
SweepBlockAll(m, ks, acc) ==
    IF ks = <<>> THEN acc
    ELSE LET k == Head(ks)
             along_x == <<m.t[1] + m.movement_this_frame[1], m.t[2]>>
             along_y == <<m.t[1], m.t[2] + m.movement_this_frame[2]>>
             hit == /\ collider[k].collides_with_player
                    /\ \/ CheckCollision(along_x, m.c.size, translation[k], collider[k].size)
                       \/ CheckCollision(along_y, m.c.size, translation[k], collider[k].size)
         IN IF k = m.entity \/ ~hit THEN SweepBlockAll(m, Tail(ks), acc)
            ELSE IF ent[k].kind = "coin"
                 THEN SweepBlockAll(m, Tail(ks), [acc EXCEPT !.coins = Append(acc.coins, k)])
                 ELSE SweepBlockAll(m, Tail(ks), [acc EXCEPT !.mask = <<0, 0, 1>>])

\* apply_movement, the loop over `colliders` for mover m: what is left of
\* mover_mask and which coins were consumed after the colliders ks, starting
\* from acc.  stopped: `continue 'outer` was taken.
RECURSIVE Sweep(_, _, _)
Sweep(m, ks, acc) ==
    IF ks = <<>> \/ acc.stopped THEN acc
    ELSE LET k == Head(ks)
             along_x == <<m.t[1] + m.movement_this_frame[1], m.t[2]>>
             along_y == <<m.t[1], m.t[2] + m.movement_this_frame[2]>>
             hit_x == /\ collider[k].collides_with_player
                      /\ CheckCollision(along_x, m.c.size, translation[k], collider[k].size)
             hit_y == /\ collider[k].collides_with_player
                      /\ CheckCollision(along_y, m.c.size, translation[k], collider[k].size)
             is_coin == ent[k].kind = "coin"
             consumed == [acc EXCEPT !.coins = Append(acc.coins, k)]
             mask_x == IF hit_x THEN [acc EXCEPT !.mask[1] = 0] ELSE acc
             mask_y == IF hit_y THEN [mask_x EXCEPT !.mask[2] = 0] ELSE mask_x
         IN IF k = m.entity THEN Sweep(m, Tail(ks), acc)
            ELSE IF hit_x /\ is_coin THEN Sweep(m, Tail(ks), consumed)
            ELSE IF hit_y /\ is_coin THEN Sweep(m, Tail(ks), consumed)
            ELSE IF mask_y.mask = <<0, 0, 0>>
                 THEN [mask_y EXCEPT !.stopped = TRUE]
                 ELSE Sweep(m, Tail(ks), mask_y)

\* apply_movement, second loop: the next mover of movement_data.  An entity
\* despawned by a queued command is still in the queries.
MoverStep ==
    /\ pc = "moving"
    /\ movement_data # <<>>
    /\ movement_data' = Tail(movement_data)
    /\ LET m == Head(movement_data)
       IN LET swept == Sweep(m, m.colliders, [mask |-> <<1, 1, 1>>, coins |-> <<>>,
                                              stopped |-> FALSE])
              coins == swept.coins
          IN /\ score_events' = score_events \o
                   [i \in 1..Len(coins) |->
                       [player |-> m.entity, delta |-> 1, seen |-> ent[m.entity].score]]
             /\ deferred' = deferred \o
                   [i \in 1..Len(coins) |-> [op |-> "despawn", e |-> coins[i]]]
             /\ nClaims' = [k \in DOMAIN nClaims \cup {coins[i] : i \in 1..Len(coins)} |->
                              (IF k \in DOMAIN nClaims THEN nClaims[k] ELSE 0)
                              + Cardinality({i \in 1..Len(coins) : coins[i] = k})]
             /\ translation' =
                   IF swept.stopped THEN translation
                   ELSE [translation EXCEPT
                           ![m.entity] =
                              <<@[1] + m.movement_this_frame[1] * swept.mask[1],
                                @[2] + m.movement_this_frame[2] * swept.mask[2]>>]
    /\ UNCHANGED <<pc, cmdq, ent, nextEntity, sent, collider, removed, nDespawn, broadcasts, shots,
                   ticks, inputs, serverVars, intent, player_input, inputq, rx_input, ran,
                   frames>>

\* apply_movement returns.
ApplyMovementEnd ==
    /\ pc = "moving"
    /\ movement_data = <<>>
    /\ pc' = "update"
    /\ ran' = ran \cup {"apply_movement"}
    /\ UNCHANGED <<cmdq, ent, deferred, nextEntity, sent, gameVars, inputs, serverVars,
                   intent, player_input, inputq, rx_input, movement_data, nClaims, frames>>

\* MoveApplyCommand with a despawn that reports a removal whether or not the
\* entity is still alive.
MoveApplyCommandEveryDespawn(w, cmd) ==
    CASE cmd.op = "spawn_projectile" ->
            [w EXCEPT !.ent = MapInsert(w.ent, cmd.e, Projectile(cmd.owner, cmd.direction)),
                      !.translation = MapInsert(w.translation, cmd.e, cmd.at),
                      !.collider = MapInsert(w.collider, cmd.e, ProjectileCollider),
                      !.nDespawn = MapInsert(w.nDespawn, cmd.e, 0)]
      [] cmd.op = "despawn" ->
            [w EXCEPT !.ent = MapRemove(w.ent, cmd.e),
                      !.translation = MapRemove(w.translation, cmd.e),
                      !.collider = MapRemove(w.collider, cmd.e),
                      !.removed = Append(w.removed, cmd.e)]
      [] cmd.op = "insert_input" /\ cmd.e \in DOMAIN w.ent ->
            [w EXCEPT !.player_input = MapInsert(w.player_input, cmd.e, cmd.input)]
      [] OTHER -> w

\* One queued command applied to the world w.
MoveApplyCommand(w, cmd) ==
    CASE cmd.op = "spawn_projectile" ->
            [w EXCEPT !.ent = MapInsert(w.ent, cmd.e, Projectile(cmd.owner, cmd.direction)),
                      !.translation = MapInsert(w.translation, cmd.e, cmd.at),
                      !.collider = MapInsert(w.collider, cmd.e, ProjectileCollider),
                      !.nDespawn = MapInsert(w.nDespawn, cmd.e, 0)]
      [] cmd.op = "despawn" /\ cmd.e \in DOMAIN w.ent ->
            [w EXCEPT !.ent = MapRemove(w.ent, cmd.e),
                      !.translation = MapRemove(w.translation, cmd.e),
                      !.collider = MapRemove(w.collider, cmd.e),
                      !.removed = Append(w.removed, cmd.e)]
      [] cmd.op = "insert_input" /\ cmd.e \in DOMAIN w.ent ->
            [w EXCEPT !.player_input = MapInsert(w.player_input, cmd.e, cmd.input)]
      [] OTHER -> w

RECURSIVE MoveApply(_, _)
MoveApply(w, cmds) ==
    IF cmds = <<>> THEN w
    ELSE MoveApply(MoveApplyCommand(w, Head(cmds)), Tail(cmds))

\* The Update schedule ends: every system has run, handle_score_event has
\* read every event, and the queued commands are applied in order.
MoveEndUpdate ==
    /\ pc = "update"
    /\ ran = {"server_update", "move_players", "apply_movement"}
    /\ score_events = <<>>
    /\ pc' = "post"
    /\ LET w == MoveApply([ent |-> ent, translation |-> translation,
                           collider |-> collider, nDespawn |-> nDespawn,
                           removed |-> removed, player_input |-> player_input],
                          deferred)
       IN /\ ent' = w.ent
          /\ translation' = w.translation
          /\ collider' = w.collider
          /\ nDespawn' = w.nDespawn
          /\ removed' = w.removed
          /\ player_input' = w.player_input
    /\ deferred' = <<>>
    /\ UNCHANGED <<cmdq, nextEntity, sent, score_events, broadcasts, shots, ticks, inputs,
                   serverVars, intent, inputq, rx_input, ran, movement_data, nClaims,
                   frames>>

\* handle_score_event, run after the other systems of Update: one iteration
\* of its loop.
MoveHandleScoreEvent ==
    /\ ran = {"server_update", "move_players", "apply_movement"}
    /\ HandleScoreEvent

\* The Input messages come from client 102, the BasicAttack from client 101.
MoveNext ==
    \/ ReceiveInput(ClientB)
    \/ ReceiveBasicAttack(ClientA)
    \/ MoveBeginFrame
    \/ FixedTick
    \/ GameStartUpdate
    \/ ServerUpdateSystem
    \/ MovePlayers
    \/ ApplyMovementStart
    \/ MoverStep
    \/ ApplyMovementEnd
    \/ MoveHandleScoreEvent
    \/ MoveEndUpdate
    \/ PostUpdate

SpecMove == InitMove /\ [][MoveNext]_vars

\* ------------------------------------------------ SpecClient: one client
\* The client whose client_sync_players is followed.
TheClient == HumanClient

\* Option<i64>::None in NetworkedEntities.score: a value no score takes.
NoScore == 0 - 1000

\* The translation the spawn messages carry, and the translations of the
\* snapshots.
SpawnPoint == <<0, 0>>
SnapshotPositions == {<<Scale, 0>>, <<0, Scale>>}

\* The server has one projectile in flight, spawned before the client
\* connected: the client has no mapping for it.  The client is connected, in
\* the lobby, and has received nothing yet.
InitClient ==
    /\ pc = "idle"
    /\ server_events = <<>>
    /\ connected = {TheClient}
    /\ cmdq = [c \in ClientIds |-> <<>>]
    /\ todo = {}
    /\ cur = 0
    /\ lobby = <<>>
    /\ ent = (1 :> Projectile(NoEntity, <<Unit, 0>>))
    /\ deferred = <<>>
    /\ nextEntity = 2
    /\ bot_id = 0
    /\ screen = "Lobby"
    /\ next_screen = "None"
    /\ sent = <<>>
    /\ inbox = [c \in ClientIds |-> <<>>]
    /\ cli = [c \in ClientIds |-> [screen |-> "Lobby", next |-> "None"]]
    /\ nStartGame = 0
    /\ nToggle = [c \in ClientIds |-> 0]
    /\ inputs = 0
    /\ translation = <<>>
    /\ collider = <<>>
    /\ score_events = <<>>
    /\ removed = <<>>
    /\ nDespawn = <<>>
    /\ broadcasts = BroadcastsBefore
    /\ shots = <<>>
    /\ ticks = 0
    /\ CallIdle
    /\ MoveIdle
    /\ network_mapping = <<>>
    /\ local = <<>>
    /\ client_lobby = <<>>
    /\ next_local = 1
    /\ cdeferred = <<>>
    /\ snapq = <<>>
    /\ rx_snap = <<>>
    /\ toggles = <<>>
    /\ cpc = "idle"

\* What the server's sends and the client's frames leave alone.
restVars == <<pc, server_events, connected, cmdq, todo, cur, lobby, deferred, bot_id,
              screen, next_screen, sent, nToggle, gameVars, call, moveVars>>

\* The server sends message m to the client (ServerChannel::ServerMessages,
\* reliable and ordered) and its world becomes world.
ServerSends(m, world) ==
    /\ cpc = "idle"
    /\ inputs < MaxClientMsgs
    /\ inputs' = inputs + 1
    /\ inbox' = [inbox EXCEPT ![TheClient] = Append(@, m)]
    /\ ent' = world
    /\ nextEntity' = IF DOMAIN world \subseteq DOMAIN ent THEN nextEntity ELSE nextEntity + 1
    /\ nStartGame' = IF m.t = "StartGame" THEN nStartGame + 1 ELSE nStartGame
    /\ UNCHANGED <<cli, network_mapping, local, client_lobby, next_local, cdeferred,
                   snapq, rx_snap, toggles, cpc, restVars>>

\* A client connects: PlayerCreate.
SendsPlayerCreate ==
    \E id \in ClientIds :
       /\ \A e \in DOMAIN ent : ent[e].kind = "player" => ent[e].id # id
       /\ ServerSends(PlayerCreate(nextEntity, id, FALSE),
                      MapInsert(ent, nextEntity, HumanPlayer(id)))

\* A client disconnects: PlayerRemove.
SendsPlayerRemove ==
    \E e \in DOMAIN ent :
       /\ ent[e].kind = "player"
       /\ ServerSends(PlayerRemove(ent[e].id), MapRemove(ent, e))

\* The catch-up of a static object: SpawnGameObject.
SendsSpawnGameObject == ServerSends(SpawnGameObject(1), ent)

\* A projectile is fired: SpawnProjectile.
SendsSpawnProjectile ==
    ServerSends(SpawnProjectile(nextEntity),
                MapInsert(ent, nextEntity, Projectile(NoEntity, <<Unit, 0>>)))

\* A coin is spawned: SpawnCoin.
SendsSpawnCoin == ServerSends(SpawnCoin(nextEntity), MapInsert(ent, nextEntity, Coin))

\* A projectile or a coin is despawned: DespawnEntity.
SendsDespawnEntity ==
    \E e \in Projectiles(ent) \cup Coins(ent) :
       ServerSends(DespawnEntity(e), MapRemove(ent, e))

\* A player toggles its readiness: SetPlayerReady.
SendsSetPlayerReady ==
    \E e \in DOMAIN ent :
       /\ ent[e].kind = "player"
       /\ ServerSends(SetPlayerReady(e, ~ent[e].is_ready),
                      [ent EXCEPT ![e].is_ready = ~ent[e].is_ready])

\* The game starts: StartGame.
SendsStartGame ==
    /\ nStartGame = 0
    /\ ServerSends(StartGame, ent)

\* One entry of NetworkedEntities: entities[i], translations[i], score[i].
SnapshotEntry(e, at) ==
    [entity |-> e, translation |-> at,
     score |-> IF e \in DOMAIN ent /\ ent[e].kind = "player" THEN ent[e].score ELSE NoScore]

\* A NetworkedEntities message reaches the client.  The channel is unreliable
\* and unordered: the message may be an old one, with entities that are gone,
\* and it may overtake the spawn message of an entity it carries.  It holds one
\* or two entities.
SnapshotArrives ==
    /\ cpc = "idle"
    /\ inputs < MaxClientMsgs
    /\ inputs' = inputs + 1
    /\ \E es \in SUBSET (1..(nextEntity - 1)) :
          /\ Cardinality(es) \in {1, 2}
          /\ \E at \in [es -> SnapshotPositions] :
                snapq' = Append(snapq, [i \in 1..Cardinality(es) |->
                                           SnapshotEntry(SetToSeq(es)[i], at[SetToSeq(es)[i]])])
    /\ UNCHANGED <<ent, nextEntity, inbox, cli, nStartGame, network_mapping, local,
                   client_lobby, next_local, cdeferred, rx_snap, toggles, cpc, restVars>>

\* A frame of the client starts: StateTransition, then Update.
ClientFrameBegin ==
    /\ cpc = "idle"
    /\ inbox[TheClient] # <<>> \/ snapq # <<>> \/ cli[TheClient].next # "None"
    /\ cpc' = "sync"
    /\ cli' = [cli EXCEPT ![TheClient] =
                  [screen |-> StateTransition(@.screen, @.next), next |-> "None"]]
    /\ rx_snap' = <<>>
    /\ toggles' = <<>>
    /\ UNCHANGED <<ent, nextEntity, inbox, inputs, nStartGame, network_mapping, local,
                   client_lobby, next_local, cdeferred, snapq, restVars>>

SpawnMessages == {"PlayerCreate", "SpawnGameObject", "SpawnProjectile", "SpawnCoin"}

\* network_mapping after a message, with a DespawnEntity that leaves the
\* entry in place.
MappingAfterKeepingDespawned(m) ==
    CASE m.t \in {"PlayerCreate", "SpawnProjectile", "SpawnCoin"} ->
            MapInsert(network_mapping, m.entity, next_local)
      [] m.t = "PlayerRemove" /\ m.id \in DOMAIN client_lobby ->
            MapRemove(network_mapping, client_lobby[m.id].server_entity)
      [] OTHER -> network_mapping

\* network_mapping after client_sync_players has processed message m.
MappingAfter(m) ==
    CASE m.t \in {"PlayerCreate", "SpawnProjectile", "SpawnCoin"} ->
            MapInsert(network_mapping, m.entity, next_local)
      [] m.t = "PlayerRemove" /\ m.id \in DOMAIN client_lobby ->
            MapRemove(network_mapping, client_lobby[m.id].server_entity)
      [] m.t = "DespawnEntity" -> MapRemove(network_mapping, m.entity)
      [] OTHER -> network_mapping

\* The kind of local entity a spawn message makes.
LocalKind(m) ==
    CASE m.t = "PlayerCreate" -> "player"
      [] m.t = "SpawnGameObject" -> "object"
      [] m.t = "SpawnProjectile" -> "projectile"
      [] OTHER -> "coin"

\* The commands client_sync_players queues for message m.
MessageCommands(m) ==
    CASE m.t \in SpawnMessages ->
            <<[op |-> "spawn", l |-> next_local, kind |-> LocalKind(m),
               is_ready |-> m.is_ready]>>
      [] m.t = "PlayerRemove" /\ m.id \in DOMAIN client_lobby ->
            <<[op |-> "despawn", l |-> client_lobby[m.id].client_entity]>>
      [] m.t = "DespawnEntity" /\ m.entity \in DOMAIN network_mapping ->
            <<[op |-> "despawn", l |-> network_mapping[m.entity]]>>
      [] OTHER -> <<>>

\* SetPlayerReady: network_mapping has the entity, and player_data.get_mut
\* finds a Player on the local entity.  The query sees the entities of the
\* world only, not the ones whose spawn is still queued.
ReadyApplies(m) ==
    /\ m.t = "SetPlayerReady"
    /\ m.entity \in DOMAIN network_mapping
    /\ network_mapping[m.entity] \in DOMAIN local
    /\ local[network_mapping[m.entity]].kind = "player"

\* One iteration of the loop over ServerChannel::ServerMessages.
ReceiveServerMessage ==
    /\ cpc = "sync"
    /\ inbox[TheClient] # <<>>
    /\ inbox' = [inbox EXCEPT ![TheClient] = Tail(@)]
    /\ LET m == Head(inbox[TheClient])
       IN /\ network_mapping' = MappingAfter(m)
          /\ next_local' = IF m.t \in SpawnMessages THEN next_local + 1 ELSE next_local
          /\ client_lobby' =
                CASE m.t = "PlayerCreate" ->
                        MapInsert(client_lobby, m.id,
                                  [server_entity |-> m.entity, client_entity |-> next_local])
                  [] m.t = "PlayerRemove" -> MapRemove(client_lobby, m.id)
                  [] OTHER -> client_lobby
          /\ cdeferred' = cdeferred \o MessageCommands(m)
          /\ local' =
                IF ReadyApplies(m)
                THEN [local EXCEPT ![network_mapping[m.entity]].is_ready = m.is_ready]
                ELSE local
          /\ toggles' =
                IF ReadyApplies(m)
                THEN Append(toggles, [player |-> network_mapping[m.entity],
                                      is_ready |-> m.is_ready])
                ELSE toggles
          /\ cli' = IF m.t = "StartGame"
                    THEN [cli EXCEPT ![TheClient].next = "Gameplay"]
                    ELSE cli
    /\ UNCHANGED <<ent, nextEntity, inputs, nStartGame, snapq, rx_snap, cpc, restVars>>

\* A snapshot that queues nothing.
SnapshotCommandsNone(snap) == <<>>

\* The transforms the loop over a NetworkedEntities message queues: one per
\* entry whose entity has a mapping.
SnapshotCommands(snap) ==
    LET mapped == {i \in 1..Len(snap) : snap[i].entity \in DOMAIN network_mapping}
    IN [j \in 1..Cardinality(mapped) |->
           [op |-> "insert_transform",
            l |-> network_mapping[snap[SetToSeq(mapped)[j]].entity],
            translation |-> snap[SetToSeq(mapped)[j]].translation]]

\* player.score after the loop over a NetworkedEntities message, for the
\* local entity l.
ScoreAfter(l, snap) ==
    LET updates == {i \in 1..Len(snap) :
                       /\ snap[i].entity \in DOMAIN network_mapping
                       /\ network_mapping[snap[i].entity] = l
                       /\ snap[i].score # NoScore}
    IN IF updates = {} \/ local[l].kind # "player" THEN local[l].score
       ELSE snap[CHOOSE i \in updates : \A j \in updates : j <= i].score

\* One iteration of the loop over ServerChannel::NetworkedEntities, which
\* starts when the loop over ServerMessages is over.
ReceiveSnapshot ==
    /\ cpc = "sync"
    /\ inbox[TheClient] = <<>>
    /\ snapq # <<>>
    /\ snapq' = Tail(snapq)
    /\ rx_snap' = Append(rx_snap, Head(snapq))
    /\ cdeferred' = cdeferred \o SnapshotCommands(Head(snapq))
    /\ local' = [l \in DOMAIN local |->
                    [local[l] EXCEPT !.score = ScoreAfter(l, Head(snapq))]]
    /\ UNCHANGED <<ent, nextEntity, inbox, cli, inputs, nStartGame, network_mapping,
                   client_lobby, next_local, toggles, cpc, restVars>>

\* One queued command applied to the client's world w; a command for an
\* entity that does not exist fails.
ClientApplyCommand(w, cmd) ==
    CASE cmd.op = "spawn" ->
            [w EXCEPT !.local = MapInsert(w.local, cmd.l,
                                    [kind |-> cmd.kind, translation |-> SpawnPoint,
                                     is_ready |-> cmd.is_ready, score |-> 0])]
      [] cmd.l \notin DOMAIN w.local -> [w EXCEPT !.failed = TRUE]
      [] cmd.op = "despawn" -> [w EXCEPT !.local = MapRemove(w.local, cmd.l)]
      [] OTHER -> [w EXCEPT !.local[cmd.l].translation = cmd.translation]

RECURSIVE ClientApply(_, _)
ClientApply(w, cmds) ==
    IF cmds = <<>> THEN w
    ELSE ClientApply(ClientApplyCommand(w, Head(cmds)), Tail(cmds))

\* client_sync_players returns and the commands of the frame are applied.
ClientFrameEnd ==
    /\ cpc = "sync"
    /\ inbox[TheClient] = <<>>
    /\ snapq = <<>>
    /\ LET w == ClientApply([local |-> local, failed |-> FALSE], cdeferred)
       IN /\ local' = w.local
          /\ cpc' = IF w.failed THEN "failed" ELSE "idle"
    /\ cdeferred' = <<>>
    /\ UNCHANGED <<ent, nextEntity, inbox, cli, inputs, nStartGame, network_mapping,
                   client_lobby, next_local, snapq, rx_snap, toggles, restVars>>

ClientNext ==
    \/ SendsPlayerCreate
    \/ SendsPlayerRemove
    \/ SendsSpawnGameObject
    \/ SendsSpawnProjectile
    \/ SendsSpawnCoin
    \/ SendsDespawnEntity
    \/ SendsSetPlayerReady
    \/ SendsStartGame
    \/ SnapshotArrives
    \/ ClientFrameBegin
    \/ ReceiveServerMessage
    \/ ReceiveSnapshot
    \/ ClientFrameEnd

SpecClient == InitClient /\ [][ClientNext]_vars

\* ------------------------------------------- SpecCollision: check_collision
\* check_collision is called on rectangles drawn from a grid: centres within
\* MaxCoord of the origin, widths and heights up to MaxSize.
CollisionCentres == {<<x, y>> : x \in (0 - MaxCoord)..MaxCoord, y \in (0 - MaxCoord)..MaxCoord}

CollisionSizes == {<<w, h>> : w \in 0..MaxSize, h \in 0..MaxSize}

InitCollision ==
    /\ \E a \in {<<0, 0>>, <<1, 0>>}, b \in CollisionCentres :
       \E a_size \in CollisionSizes, b_size \in CollisionSizes :
          call = [fn |-> "check_collision", a |-> a, a_size |-> a_size,
                  b |-> b, b_size |-> b_size, returned |-> FALSE, result |-> FALSE]
    /\ MoveIdle
    /\ MirrorIdle
    /\ pc = "idle"
    /\ server_events = <<>>
    /\ connected = {}
    /\ cmdq = [c \in ClientIds |-> <<>>]
    /\ todo = {}
    /\ cur = 0
    /\ lobby = <<>>
    /\ ent = <<>>
    /\ deferred = <<>>
    /\ nextEntity = NumGameObjects + 1
    /\ bot_id = 0
    /\ screen = "Lobby"
    /\ next_screen = "None"
    /\ sent = <<>>
    /\ inbox = [c \in ClientIds |-> <<>>]
    /\ cli = [c \in ClientIds |-> [screen |-> "Lobby", next |-> "None"]]
    /\ nStartGame = 0
    /\ nToggle = [c \in ClientIds |-> 0]
    /\ inputs = 0
    /\ translation = <<>>
    /\ collider = <<>>
    /\ score_events = <<>>
    /\ removed = <<>>
    /\ nDespawn = <<>>
    /\ broadcasts = BroadcastsBefore
    /\ shots = <<>>
    /\ ticks = 0

\* One call of check_collision returns.
CallCheckCollision ==
    /\ call # <<>>
    /\ call.fn = "check_collision"
    /\ ~call.returned
    /\ call' = [call EXCEPT !.returned = TRUE,
                            !.result = CheckCollision(call.a, call.a_size,
                                                      call.b, call.b_size)]
    /\ UNCHANGED <<pc, ent, nextEntity, sent, gameVars, lobbyVars_noext, moveVars,
                   mirrorVars>>

SpecCollision == InitCollision /\ [][CallCheckCollision]_vars

\* ------------------------------------------ SpecSpawner: the coin spawner
\* The lobby of Spec, with the FixedUpdate schedule of each frame: after
\* StateTransition and before Update, FixedUpdate runs zero or more times.
\* No projectile exists here, so move_projectiles does nothing.

\* rng.gen_range(-750.0..750.0), rng.gen_range(-400.0..400.0)
SpawnerPositions == {<<100 * Scale, 50 * Scale>>}

\* A spawner with no run condition.
SpawnCoinsRunAlways == TRUE

\* spawn_coins.run_if(in_state(Screen::Gameplay))
SpawnCoinsRunIf == screen = "Gameplay"

\* spawn_coin: the coin entity with its Transform and Collider, and one
\* SpawnCoin broadcast.
SpawnCoinAt(position) ==
    LET coin_entity == nextEntity
    IN /\ ent' = MapInsert(ent, coin_entity, Coin)
       /\ translation' = MapInsert(translation, coin_entity, position)
       /\ collider' = MapInsert(collider, coin_entity, CoinCollider)
       /\ nextEntity' = nextEntity + 1
       /\ sent' = Append(sent, BroadcastMessage(SpawnCoin(coin_entity)))
       /\ broadcasts' = Logged(<<BroadcastMessage(SpawnCoin(coin_entity))>>)

\* spawn_coins; just_finished: spawner.timer.tick(time.delta()).just_finished().
SpawnCoins(just_finished) ==
    IF just_finished
    THEN \E position \in SpawnerPositions : SpawnCoinAt(position)
    ELSE UNCHANGED <<ent, translation, collider, nextEntity, sent, broadcasts>>

\* The frame starts: StateTransition, then RunFixedMainLoop.
SpawnerBeginFrame ==
    /\ pc = "idle"
    /\ pc' = "fixed"
    /\ screen' = StateTransition(screen, next_screen)
    /\ next_screen' = "None"
    /\ sent' = <<>>
    /\ ticks' = 0
    /\ UNCHANGED <<server_events, connected, cmdq, todo, cur, lobby, ent, deferred,
                   nextEntity, bot_id, nStartGame, inputs, translation, collider,
                   score_events, removed, nDespawn, broadcasts, shots, clientVars, extVars>>

\* One run of the FixedUpdate schedule, its commands applied: spawn_coins if
\* its run condition holds.  The timer of 1.2 s may or may not finish in it.
SpawnerFixedUpdate ==
    /\ pc = "fixed"
    /\ ticks < MaxFixedTicks
    /\ ticks' = ticks + 1
    /\ IF SpawnCoinsRunIf
       THEN \E just_finished \in BOOLEAN :
               /\ just_finished => Cardinality(Coins(ent)) < MaxSpawnerCoins
               /\ SpawnCoins(just_finished)
       ELSE UNCHANGED <<ent, translation, collider, nextEntity, sent, broadcasts>>
    /\ UNCHANGED <<pc, server_events, connected, cmdq, todo, cur, lobby, deferred,
                   bot_id, screen, next_screen, nStartGame, inputs, score_events,
                   removed, nDespawn, shots, clientVars, extVars>>

\* RunFixedMainLoop is over; Update starts with server_update_system.
SpawnerStartUpdate ==
    /\ pc = "fixed"
    /\ pc' = "events"
    /\ UNCHANGED <<server_events, connected, cmdq, todo, cur, lobby, ent, deferred,
                   nextEntity, bot_id, screen, next_screen, sent, nStartGame, inputs,
                   clientVars, gameVars, extVars>>

SpawnerNext ==
    \/ SpawnerBeginFrame
    \/ SpawnerFixedUpdate
    \/ SpawnerStartUpdate
    \/ HandleEvent
    \/ StartCommands
    \/ \E c \in ClientIds : HandleCommand(c)
    \/ EndUpdate
    \/ Environment

SpecSpawner == Init /\ [][SpawnerNext]_vars

\* ------------------------------------ SpecLobbyShots: shots in the lobby
\* SpecGame's frames from the Lobby screen on: the bots fire while the human
\* player, with score 0, is not ready yet; its ToggleReady starts the game,
\* and spawn_coins runs in the FixedUpdate runs of Gameplay.

\* ToggleReady commands followed.
MaxToggles == 2

InitLobbyShots == InitGameIn("Lobby", {0}, FALSE)

\* The frame starts: StateTransition, then RunFixedMainLoop.
LobbyShotsBeginFrame ==
    /\ pc = "idle"
    /\ pc' = "fixed"
    /\ screen' = StateTransition(screen, next_screen)
    /\ next_screen' = "None"
    /\ ticks' = 0
    /\ sent' = <<>>
    /\ UNCHANGED <<ent, nextEntity, translation, collider, score_events, removed,
                   nDespawn, broadcasts, shots, server_events, connected, cmdq, todo, cur, lobby,
                   deferred, bot_id, nStartGame, inputs, clientVars, extVars>>

\* spawn_coins in a FixedUpdate run in which its timer finishes, its command
\* applied.
LobbyShotsSpawnCoins ==
    /\ pc = "fixed"
    /\ SpawnCoinsRunIf
    /\ Cardinality(Coins(ent)) < MaxSpawnerCoins
    /\ SpawnCoins(TRUE)
    /\ UNCHANGED <<pc, score_events, removed, nDespawn, shots, ticks, lobbyVars>>

\* server_update_system receives a ToggleReady of the human player.
LobbyShotsToggleReady ==
    /\ pc = "update"
    /\ inputs < MaxToggles
    /\ inputs' = inputs + 1
    /\ HandleToggleReady(HumanClient)
    /\ UNCHANGED <<pc, nextEntity, gameVars, server_events, connected, cmdq, todo, cur,
                   lobby, deferred, bot_id, screen, clientVars, extVars>>

LobbyShotsNext ==
    \/ LobbyShotsBeginFrame
    \/ FixedTick
    \/ LobbyShotsSpawnCoins
    \/ GameStartUpdate
    \/ \E b \in BotEntities : BotAutocast(b)
    \/ LobbyShotsToggleReady
    \/ HandleScoreEvent
    \/ GameEndUpdate
    \/ PostUpdate

SpecLobbyShots == InitLobbyShots /\ [][LobbyShotsNext]_vars

\* ------------------------------------- SpecSync: server_network_sync
\* SpecGame's frames with server_network_sync run once in every Update, in
\* any order with bot_autocast and handle_score_event.  snapq holds the
\* NetworkedEntities message of the last run as the server builds it: the
\* four arrays.  (SpecClient follows a message entry by entry, as the client
\* reads it.)

\* Option<[f32; 2]>::None in NetworkedEntities.facing_directions
NoFacing == <<>>

\* The entities a projectile spawned by a command of the running Update
\* stands for: no query matches them before the schedule ends.
QueuedSpawns == {sent[i].m.entity : i \in {j \in 1..Len(sent) : sent[j].m.t = "SpawnProjectile"}}

\* Or<(With<Player>, With<Projectile>)> and every other kind of entity too.
NetworkedQueryEveryKind(world) == DOMAIN world \ QueuedSpawns

\* Query<(Entity, &Transform, Option<&FacingDirection>, Option<&Player>),
\* Or<(With<Player>, With<Projectile>)>>
NetworkedQuery(world) ==
    {e \in DOMAIN world \ QueuedSpawns : world[e].kind \in {"player", "projectile"}}

\* Option<&FacingDirection>: a projectile is spawned with it, and
\* move_players_system inserts it in every frame for a player that has a
\* MovementController and a PlayerInput (of direction zero, with no input).
FacingOf(e) ==
    CASE ent[e].kind = "projectile" -> ent[e].direction
      [] ent[e].kind = "player" /\ ent[e].mc -> <<0, 0>>
      [] OTHER -> NoFacing

\* maybe_player.map(|player| player.score)
ScoreOf(e) == IF ent[e].kind = "player" THEN ent[e].score ELSE NoScore

\* The loop of server_network_sync over the entities `order` of the query.
RECURSIVE SyncPush(_, _)
SyncPush(order, networked_entities) ==
    IF order = <<>> THEN networked_entities
    ELSE LET entity == Head(order)
         IN SyncPush(Tail(order),
                [entities |-> Append(networked_entities.entities, entity),
                 translations |-> Append(networked_entities.translations,
                                         translation[entity]),
                 score |-> Append(networked_entities.score, ScoreOf(entity)),
                 facing_directions |-> Append(networked_entities.facing_directions,
                                              FacingOf(entity))])

\* NetworkedEntities::default()
NetworkedEntitiesDefault ==
    [entities |-> <<>>, translations |-> <<>>, facing_directions |-> <<>>, score |-> <<>>]

\* server_network_sync
ServerNetworkSync ==
    /\ pc = "update"
    /\ "server_network_sync" \notin ran
    /\ ran' = ran \cup {"server_network_sync"}
    /\ \E order \in StorageOrders(NetworkedQuery(ent)) :
          snapq' = <<SyncPush(order, NetworkedEntitiesDefault)>>
    /\ UNCHANGED <<pc, ent, nextEntity, sent, gameVars, lobbyVars_noext, call, intent,
                   player_input, inputq, rx_input, movement_data, nClaims, frames,
                   network_mapping, local, client_lobby, next_local, cdeferred,
                   rx_snap, toggles, cpc>>

\* The Update schedule ends: every system has run.
SyncEndUpdate ==
    /\ pc = "update"
    /\ score_events = <<>>
    /\ "server_network_sync" \in ran
    /\ pc' = "post"
    /\ ran' = {}
    /\ UNCHANGED <<ent, nextEntity, sent, gameVars, lobbyVars_noext, call, intent,
                   player_input, inputq, rx_input, movement_data, nClaims, frames,
                   mirrorVars>>

SyncNext ==
    \/ GameBeginFrame
    \/ FixedTick
    \/ GameStartUpdate
    \/ \E b \in BotEntities : BotAutocast(b)
    \/ HandleScoreEvent
    \/ ServerNetworkSync
    \/ SyncEndUpdate
    \/ PostUpdate

SpecSync == InitGame /\ [][SyncNext]_vars

\* ------------------------------ SpecWorld: generate_world and its mirror
\* The server generates the world at Startup; a client connects and is sent
\* the game objects and its own player; the client spawns what it is sent.

\* fastrand::usize(12..=20)
TreeCounts == 12..20
NumPatches == 8
NumWalls == 8
\* rng.gen_range(0..=3) for wall_type: the walls up to FullDrawWalls draw
\* from the whole range, the others one of its ends.
FullDrawWalls == 2
WallTypeDraws(i) == IF i <= FullDrawWalls THEN 0..3 ELSE {0, 3}

\* let size = match wall_type { .. }
WallSize(wall_type) ==
    CASE wall_type = 0 -> <<64 * Scale, 48 * Scale>>
      [] wall_type = 1 -> <<94 * Scale, 48 * Scale>>
      [] wall_type = 2 -> <<32 * Scale, 80 * Scale>>
      [] OTHER -> <<32 * Scale, 114 * Scale>>

\* ServerGameObject(4 + wall_type)
WallKindShifted(wall_type) == 4 + wall_type

\* ServerGameObject(3 + wall_type)
WallKind(wall_type) == 3 + wall_type

\* size * 1.5
Times1_5(size) == <<(size[1] * 3) \div 2, (size[2] * 3) \div 2>>

\* The Collider generate_world gives a tree and a wall.
TreeCollider ==
    [size |-> <<26 * Scale, 30 * Scale>>, collides_with_player |-> TRUE,
     collides_with_projectile |-> TRUE]
WallColliderOf(wall_type) ==
    [size |-> Times1_5(WallSize(wall_type)), collides_with_player |-> TRUE,
     collides_with_projectile |-> TRUE]

\* The entities generate_world spawns, in the order of its commands: the
\* patches, the pond, the trees, the walls.
FirstWall(num_trees) == NumPatches + 2 + num_trees

\* generate_world, with the commands of Startup applied.
GenerateWorld ==
    /\ pc = "startup"
    /\ pc' = "idle"
    /\ \E num_trees \in TreeCounts :
       \E wall_type \in [1..NumWalls -> 0..3] :
          /\ \A i \in 1..NumWalls : wall_type[i] \in WallTypeDraws(i)
          /\ ent' = [e \in 1..(FirstWall(num_trees) + NumWalls - 1) |->
                        CASE e <= NumPatches -> StaticObject(0)
                          [] e = NumPatches + 1 -> StaticObject(1)
                          [] e < FirstWall(num_trees) -> StaticObject(2)
                          [] OTHER ->
                               StaticObject(WallKind(wall_type[e - FirstWall(num_trees) + 1]))]
          /\ collider' = [e \in (NumPatches + 1)..(FirstWall(num_trees) + NumWalls - 1) |->
                            CASE e = NumPatches + 1 -> PondCollider
                              [] e < FirstWall(num_trees) -> TreeCollider
                              [] OTHER ->
                                   WallColliderOf(wall_type[e - FirstWall(num_trees) + 1])]
          /\ nextEntity' = FirstWall(num_trees) + NumWalls
    /\ UNCHANGED <<sent, translation, score_events, removed, nDespawn, broadcasts, shots, ticks,
                   lobbyVars_noext, extVars>>

\* Query<(&Transform, &ServerGameObject)>
GameObjectsQuery(world) == {e \in DOMAIN world : world[e].kind = "object"}

\* "Initialize game objects for this player"
GameObjectCatchUp(c, world) ==
    LET os == SetToSeq(GameObjectsQuery(world))
    IN [i \in 1..Len(os) |-> SendMessage(c, SpawnGameObject(world[os[i]].id))]

\* ServerEvent::ClientConnected for TheClient, the first to connect, with the
\* commands of the Update applied and the messages delivered.
WorldClientConnected ==
    /\ pc = "idle"
    /\ TheClient \notin connected
    /\ connected' = connected \cup {TheClient}
    /\ LET player_entity == nextEntity
           out == GameObjectCatchUp(TheClient, ent)
                  \o <<BroadcastMessage(PlayerCreate(player_entity, TheClient, FALSE))>>
       IN /\ nextEntity' = nextEntity + 1
          /\ ent' = MapInsert(ent, player_entity, HumanPlayer(TheClient))
          /\ collider' = MapInsert(collider, player_entity,
                                   PlayerCollider(PLAYER_BASE_COLLIDER_SIZE))
          /\ lobby' = MapInsert(lobby, TheClient, player_entity)
          /\ sent' = out
          /\ inbox' = [inbox EXCEPT ![TheClient] = @ \o [i \in 1..Len(out) |-> out[i].m]]
    /\ UNCHANGED <<pc, server_events, cmdq, todo, cur, deferred, bot_id, screen,
                   next_screen, nStartGame, inputs, cli, nToggle, translation,
                   score_events, removed, nDespawn, broadcasts, shots, ticks, extVars>>

\* let obj_collider_sizes = [ .. ] of the client.
ClientObjColliderSizes ==
    <<<<0, 0>>, <<90 * Scale, 76 * Scale>>, <<26 * Scale, 30 * Scale>>,
      <<64 * Scale, 48 * Scale>>, <<94 * Scale, 48 * Scale>>,
      <<32 * Scale, 80 * Scale>>, <<32 * Scale, 114 * Scale>>>>

\* The Collider the client gives the object of a SpawnGameObject { id, .. }.
ClientObjectCollider(id) ==
    [size |-> Times1_5(ClientObjColliderSizes[id + 1]),
     collides_with_player |-> id # 0,
     collides_with_projectile |-> id >= 2]

\* The Collider the client gives the player of a PlayerCreate.
ClientPlayerCollider ==
    [size |-> <<14 * Scale, 24 * Scale>>, collides_with_player |-> TRUE,
     collides_with_projectile |-> TRUE]

\* The entity the client spawns for message m.
ClientSpawned(m) ==
    IF m.t = "SpawnGameObject"
    THEN [kind |-> "object", id |-> m.id, server_entity |-> NoEntity,
          collider |-> ClientObjectCollider(m.id)]
    ELSE [kind |-> "player", id |-> m.id, server_entity |-> m.entity,
          collider |-> ClientPlayerCollider]

\* One frame of the client: client_sync_players drains the channel, and the
\* commands are applied.  `match id { .. _ => unreachable!() }` panics on an
\* id above 6.
WorldClientFrame ==
    /\ cpc = "idle"
    /\ inbox[TheClient] # <<>>
    /\ LET msgs == inbox[TheClient]
       IN IF \E i \in 1..Len(msgs) : msgs[i].t = "SpawnGameObject" /\ msgs[i].id \notin 0..6
          THEN /\ cpc' = "failed"
               /\ UNCHANGED <<local, next_local, network_mapping, client_lobby>>
          ELSE /\ cpc' = "idle"
               /\ local' = [l \in DOMAIN local \cup (next_local..(next_local + Len(msgs) - 1)) |->
                               IF l \in DOMAIN local THEN local[l]
                               ELSE ClientSpawned(msgs[l - next_local + 1])]
               /\ next_local' = next_local + Len(msgs)
               /\ network_mapping' =
                     [e \in DOMAIN network_mapping \cup
                            {msgs[i].entity : i \in {j \in 1..Len(msgs) : msgs[j].t = "PlayerCreate"}} |->
                         IF e \in DOMAIN network_mapping THEN network_mapping[e]
                         ELSE next_local - 1 + CHOOSE i \in 1..Len(msgs) :
                                                  msgs[i].t = "PlayerCreate" /\ msgs[i].entity = e]
               /\ client_lobby' =
                     [id \in DOMAIN client_lobby \cup
                             {msgs[i].id : i \in {j \in 1..Len(msgs) : msgs[j].t = "PlayerCreate"}} |->
                         IF id \in DOMAIN client_lobby THEN client_lobby[id]
                         ELSE LET i == CHOOSE i \in 1..Len(msgs) :
                                          msgs[i].t = "PlayerCreate" /\ msgs[i].id = id
                              IN [server_entity |-> msgs[i].entity,
                                  client_entity |-> next_local - 1 + i]]
    /\ inbox' = [inbox EXCEPT ![TheClient] = <<>>]
    /\ UNCHANGED <<pc, ent, nextEntity, sent, gameVars, server_events, connected, cmdq,
                   todo, cur, lobby, deferred, bot_id, screen, next_screen, nStartGame,
                   inputs, cli, nToggle, call, moveVars, cdeferred, snapq, rx_snap,
                   toggles>>

\* The world before Startup.
InitWorld ==
    /\ pc = "startup"
    /\ server_events = <<>>
    /\ connected = {}
    /\ cmdq = [c \in ClientIds |-> <<>>]
    /\ todo = {}
    /\ cur = 0
    /\ lobby = <<>>
    /\ ent = <<>>
    /\ deferred = <<>>
    /\ nextEntity = 1
    /\ bot_id = 0
    /\ screen = "Lobby"
    /\ next_screen = "None"
    /\ sent = <<>>
    /\ inbox = [c \in ClientIds |-> <<>>]
    /\ cli = [c \in ClientIds |-> [screen |-> "Lobby", next |-> "None"]]
    /\ nStartGame = 0
    /\ nToggle = [c \in ClientIds |-> 0]
    /\ inputs = 0
    /\ translation = <<>>
    /\ collider = <<>>
    /\ score_events = <<>>
    /\ removed = <<>>
    /\ nDespawn = <<>>
    /\ broadcasts = BroadcastsBefore
    /\ shots = <<>>
    /\ ticks = 0
    /\ ExtIdle

WorldNext ==
    \/ GenerateWorld
    \/ WorldClientConnected
    \/ WorldClientFrame

SpecWorld == InitWorld /\ [][WorldNext]_vars

\* ------------------------------------------ SpecSpawn: spawn positions
\* Connects, disconnects and spawn_bot, each with the commands of its frame
\* applied, and the Transform every player is spawned with.

\* ClientConnected, ClientDisconnected and KeyB presses followed.
MaxSpawnEvents == 6

\* const SPAWN_POSITIONS: [Vec2; 8]
SPAWN_POSITIONS ==
    <<<<(0 - 250) * Scale, 0>>, <<250 * Scale, 0>>, <<0, 250 * Scale>>,
      <<0, (0 - 250) * Scale>>, <<176 * Scale, 176 * Scale>>,
      <<(0 - 176) * Scale, 176 * Scale>>, <<(0 - 176) * Scale, (0 - 176) * Scale>>,
      <<176 * Scale, (0 - 176) * Scale>>>>

\* SPAWN_POSITIONS[lobby.players.len() % SPAWN_POSITIONS.len()]
SpawnPosition(players) ==
    SPAWN_POSITIONS[(Cardinality(DOMAIN players) % Len(SPAWN_POSITIONS)) + 1]

spawnRest == <<pc, server_events, cmdq, todo, cur, deferred, screen, next_screen, sent,
               nStartGame, clientVars, collider, score_events, removed, nDespawn, broadcasts,
               shots, ticks, extVars>>

\* ServerEvent::ClientConnected { client_id }: "Spawn new player".
SpawnClientConnected(c) ==
    /\ c \notin connected
    /\ inputs < MaxSpawnEvents
    /\ inputs' = inputs + 1
    /\ connected' = connected \cup {c}
    /\ LET player_entity == nextEntity
       IN /\ nextEntity' = nextEntity + 1
          /\ translation' = MapInsert(translation, player_entity, SpawnPosition(lobby))
          /\ ent' = MapInsert(ent, player_entity, HumanPlayer(c))
          /\ lobby' = MapInsert(lobby, c, player_entity)
    /\ UNCHANGED <<bot_id, spawnRest>>

\* ServerEvent::ClientDisconnected { client_id, .. }
SpawnClientDisconnected(c) ==
    /\ c \in connected
    /\ inputs < MaxSpawnEvents
    /\ inputs' = inputs + 1
    /\ connected' = connected \ {c}
    /\ IF c \in DOMAIN lobby
       THEN /\ ent' = MapRemove(ent, lobby[c])
            /\ translation' = MapRemove(translation, lobby[c])
            /\ lobby' = MapRemove(lobby, c)
       ELSE UNCHANGED <<ent, translation, lobby>>
    /\ UNCHANGED <<nextEntity, bot_id, spawnRest>>

\* spawn_bot, KeyB just pressed.
SpawnBotPlaced ==
    /\ bot_id < MaxBots
    /\ inputs < MaxSpawnEvents
    /\ inputs' = inputs + 1
    /\ LET client_id == bot_id
           player_entity == nextEntity
       IN /\ bot_id' = bot_id + 1
          /\ nextEntity' = nextEntity + 1
          /\ translation' = MapInsert(translation, player_entity, SpawnPosition(lobby))
          /\ ent' = MapInsert(ent, player_entity, BotPlayer(client_id))
          /\ lobby' = MapInsert(lobby, client_id, player_entity)
    /\ UNCHANGED <<connected, spawnRest>>

SpawnNext ==
    \/ \E c \in ClientIds : SpawnClientConnected(c)
    \/ \E c \in ClientIds : SpawnClientDisconnected(c)
    \/ SpawnBotPlaced

SpecSpawn == Init /\ [][SpawnNext]_vars

\* ================================================== properties: the lobby
\* A member of the lobby is ready: its Player exists and has is_ready set.  A
\* member whose entity is still a queued spawn is not ready.
MemberReady(c) == lobby[c] \in DOMAIN ent /\ ent[lobby[c]].is_ready
AllMembersReady == \A c \in DOMAIN lobby : MemberReady(c)

\* This step takes a ToggleReady off a client's Command channel.
ToggleReadyProcessed ==
    /\ pc = "commands"
    /\ \E c \in ClientIds : cmdq[c] # <<>> /\ cmdq'[c] = Tail(cmdq[c])

\* The sends this step added to the frame's log (for a step that appends).
NewSends == SubSeq(sent', Len(sent) + 1, Len(sent'))

\* This step handles the event [type, client_id].
EventHandled(type, c) ==
    /\ pc = "events"
    /\ server_events # <<>>
    /\ Head(server_events) = [type |-> type, client_id |-> c]
    /\ server_events' = Tail(server_events)

\* C1: a ToggleReady processed with two or more lobby members broadcasts
\* StartGame if and only if, after the flip, every member of the lobby is
\* ready, a member created in the same tick counting as not ready.
C1_StartGameIffAllReady ==
    [][(ToggleReadyProcessed /\ Cardinality(DOMAIN lobby) >= 2)
         => /\ CountType(NewSends, "StartGame") = (IF AllMembersReady' THEN 1 ELSE 0)
            /\ nStartGame' = nStartGame + CountType(NewSends, "StartGame")]_vars

\* C2: a ToggleReady processed while the lobby holds exactly one member
\* broadcasts no StartGame and requests no transition of the server's screen.
C2_SingleMemberNeverStarts ==
    [][(ToggleReadyProcessed /\ Cardinality(DOMAIN lobby) = 1)
         => /\ CountType(NewSends, "StartGame") = 0
            /\ nStartGame' = nStartGame
            /\ next_screen' = next_screen
            /\ screen' = screen]_vars

\* C2's case: the only member of the lobby has toggled itself ready in this
\* frame, and nothing started.
C2_Witness ==
    /\ pc = "commands"
    /\ Cardinality(DOMAIN lobby) = 1
    /\ \E c \in DOMAIN lobby :
          /\ MemberReady(c)
          /\ \E i \in 1..Len(sent) : sent[i] = BroadcastMessage(SetPlayerReady(lobby[c], TRUE))
    /\ nStartGame = 0
    /\ next_screen = "None"

\* C3: StartGame is broadcast only by a step that takes the lobby from not
\* all-ready to all-ready, once, and never while the server is in Gameplay.
C3_StartGameOncePerTransition ==
    [][nStartGame' # nStartGame
         => /\ nStartGame' = nStartGame + 1
            /\ ~AllMembersReady
            /\ AllMembersReady'
            /\ screen # "Gameplay"]_vars

\* C3's case the other way round: a StartGame broadcast in a frame in which
\* the server is already in Gameplay.
C3_StartGameInGameplay ==
    /\ screen = "Gameplay"
    /\ CountType(sent, "StartGame") >= 1

\* C4: whenever a lobby of two or more members is all-ready, the server
\* eventually has broadcast StartGame and is in Gameplay.
C4_AllReadyLeadsToGameplay ==
    (Cardinality(DOMAIN lobby) >= 2 /\ AllMembersReady)
        ~> (nStartGame > 0 /\ screen = "Gameplay")

\* C6: handling ClientDisconnected for a client id that is not in the lobby
\* changes no state of the server and broadcasts nothing.
C6_AbsentDisconnectIsNoOp ==
    [][\A c \in ClientIds :
          (EventHandled("ClientDisconnected", c) /\ c \notin DOMAIN lobby)
             => /\ lobby' = lobby
                /\ ent' = ent
                /\ deferred' = deferred
                /\ nextEntity' = nextEntity
                /\ <<screen', next_screen'>> = <<screen, next_screen>>
                /\ CountType(NewSends, "PlayerRemove") = 0
                /\ sent' = sent]_vars

\* C9: handling ClientConnected for client c spawns exactly one new entity,
\* a Player with id c, score 0 and is_ready false, enters it in the lobby
\* under c, and broadcasts exactly one PlayerCreate, for that entity, with
\* is_ready false; at the end of the frame the entity is in the world.
C9_ConnectCreatesPlayer ==
    /\ [][\A c \in ClientIds :
            EventHandled("ClientConnected", c)
               => /\ c \in DOMAIN lobby'
                  /\ lobby'[c] \notin DOMAIN ent
                  /\ \A d \in DOMAIN lobby : lobby[d] # lobby'[c]
                  /\ \A d \in DOMAIN lobby \ {c} : lobby'[d] = lobby[d]
                  /\ Len(deferred') = Len(deferred) + 1
                  /\ LET cmd == deferred'[Len(deferred')]
                     IN /\ cmd.op = "spawn"
                        /\ cmd.e = lobby'[c]
                        /\ cmd.comp.kind = "player"
                        /\ cmd.comp.id = c
                        /\ cmd.comp.score = 0
                        /\ cmd.comp.is_ready = FALSE
                  /\ LET bc == {i \in 1..Len(NewSends) :
                                   /\ NewSends[i].to = ToAll
                                   /\ NewSends[i].m.t = "PlayerCreate"}
                     IN /\ Cardinality(bc) = 1
                        /\ \A i \in bc : NewSends[i].m = PlayerCreate(lobby'[c], c, FALSE)]_vars
    /\ [](pc = "idle"
            => \A c \in ClientIds \cap DOMAIN lobby :
                  /\ lobby[c] \in DOMAIN ent
                  /\ ent[lobby[c]].kind = "player"
                  /\ ent[lobby[c]].id = c
                  /\ (\E i \in 1..Len(sent) :
                          sent[i] = BroadcastMessage(PlayerCreate(lobby[c], c, FALSE)))
                        => (ent[lobby[c]].score = 0 /\ ~ent[lobby[c]].is_ready))

\* C9's case: a frame that handled a connection has ended.
C9_Witness ==
    /\ pc = "idle"
    /\ \E c \in ClientIds \cap DOMAIN lobby :
          /\ \E i \in 1..Len(sent) : sent[i] = BroadcastMessage(PlayerCreate(lobby[c], c, FALSE))
          /\ lobby[c] \in DOMAIN ent
          /\ ent[lobby[c]].id = c
          /\ ent[lobby[c]].score = 0
          /\ ~ent[lobby[c]].is_ready

\* C12: handling ClientDisconnected for a client that is in the lobby removes
\* its lobby entry (and no other), queues the despawn of its player entity
\* and broadcasts exactly one PlayerRemove, with that client id; when the frame
\* has ended every player entity left in the world is the one of a lobby member.
C12_DisconnectRemovesPlayer ==
    /\ [][\A c \in ClientIds :
            (EventHandled("ClientDisconnected", c) /\ c \in DOMAIN lobby)
               => /\ c \notin DOMAIN lobby'
                  /\ DOMAIN lobby' = DOMAIN lobby \ {c}
                  /\ \A d \in DOMAIN lobby' : lobby'[d] = lobby[d]
                  /\ deferred' = Append(deferred, [op |-> "despawn", e |-> lobby[c],
                                                    comp |-> <<>>])
                  /\ NewSends = <<BroadcastMessage(PlayerRemove(c))>>]_vars
    /\ [](pc = "idle"
            => \A e \in DOMAIN ent :
                  ent[e].kind = "player" => \E d \in DOMAIN lobby : lobby[d] = e)

\* C12's case: the disconnect of a lobby member has been handled in the
\* running frame.
C12_Witness ==
    /\ pc \in {"events", "commands"}
    /\ \E c \in ClientIds : \E i \in 1..Len(deferred) :
          /\ c \notin DOMAIN lobby
          /\ deferred[i].op = "despawn"
          /\ deferred[i].e \in DOMAIN ent
          /\ ent[deferred[i].e].id = c
          /\ CountType(sent, "PlayerRemove") = 1
          /\ \E j \in 1..Len(sent) : sent[j] = BroadcastMessage(PlayerRemove(c))

\* This step processes a ToggleReady received from client c.
ToggleReadyFrom(c) ==
    /\ pc = "commands"
    /\ cmdq[c] # <<>>
    /\ cmdq'[c] = Tail(cmdq[c])

\* C13: every ToggleReady processed for a client that is in the lobby flips
\* that client's is_ready and is answered by exactly one SetPlayerReady
\* broadcast, for its entity, with the new value; also in the tick in which
\* the client connected.
C13_ToggleFlipsAndBroadcasts ==
    [][\A c \in ClientIds :
          (ToggleReadyFrom(c) /\ c \in DOMAIN lobby)
             => /\ CountType(NewSends, "SetPlayerReady") = 1
                /\ lobby[c] \in DOMAIN ent'
                /\ \E i \in 1..Len(NewSends) :
                      NewSends[i] = BroadcastMessage(
                                       SetPlayerReady(lobby[c], ent'[lobby[c]].is_ready))
                /\ lobby[c] \in DOMAIN ent
                      => ent'[lobby[c]].is_ready = ~ent[lobby[c]].is_ready]_vars

\* The players that exist on the server, human or bot.
ExistingPlayers == {e \in DOMAIN ent : ent[e].kind = "player"}

\* C10: handling ClientConnected for client c sends to c, point-to-point,
\* exactly one PlayerCreate for every player that exists on the server and
\* exactly one SpawnGameObject for every static object.
C10_CatchUpCoversEveryPlayer ==
    [][\A c \in ClientIds :
          EventHandled("ClientConnected", c)
             => /\ \A e \in ExistingPlayers :
                      Cardinality({i \in 1..Len(NewSends) :
                                      /\ NewSends[i].to = c
                                      /\ NewSends[i].m.t = "PlayerCreate"
                                      /\ NewSends[i].m.entity = e}) = 1
                /\ Cardinality({i \in 1..Len(NewSends) :
                                   /\ NewSends[i].to = c
                                   /\ NewSends[i].m.t = "SpawnGameObject"}) = NumGameObjects]_vars

\* ================================================== properties: SpecE2E
\* Both clients of the scenario are in the lobby and ready, between two frames.
BothReady ==
    /\ pc = "idle"
    /\ \A c \in E2EClients : c \in DOMAIN lobby /\ MemberReady(c)

\* C5: once both clients are ready, StartGame has been broadcast exactly once,
\* and a client that has processed everything sent to it is in Gameplay.
C5_TwoClientsStartOnce ==
    BothReady
        => /\ nStartGame = 1
           /\ \A c \in E2EClients :
                 (inbox[c] = <<>> /\ cli[c].next = "None") => cli[c].screen = "Gameplay"

\* How many messages of type t the channel content `msgs` holds.
CountMsg(msgs, t) == Cardinality({i \in 1..Len(msgs) : msgs[i].t = t})

\* Client c is in the lobby and is the only player the server has created.
OnlyPlayer(c) == DOMAIN lobby = {c} /\ nextEntity = NumGameObjects + 2

\* This step ends the frame that handled the connection of the only player c
\* and hands the frame's sends to the transport.
FirstConnectDelivered(c) ==
    /\ pc = "commands"
    /\ pc' = "idle"
    /\ OnlyPlayer(c)
    /\ \E i \in 1..Len(sent) : sent[i] = BroadcastMessage(PlayerCreate(lobby[c], c, FALSE))

\* This step processes a ToggleReady of the only player c, not ready so far,
\* in a frame after the one that handled its connection.
OnlyPlayerToggles(c) ==
    /\ pc = "commands"
    /\ cmdq[c] # <<>>
    /\ cmdq'[c] = Tail(cmdq[c])
    /\ OnlyPlayer(c)
    /\ lobby[c] \in DOMAIN ent
    /\ ~ent[lobby[c]].is_ready

\* What C11 says of the ToggleReady and of StartGame.
OnlyPlayerReadyNoStart ==
    /\ [][\A c \in E2EClients :
            OnlyPlayerToggles(c)
               => /\ NewSends = <<BroadcastMessage(SetPlayerReady(lobby[c], TRUE))>>
                  /\ ent'[lobby[c]].is_ready
                  /\ nStartGame' = nStartGame]_vars
    /\ [](\A c \in E2EClients :
            OnlyPlayer(c)
               => /\ nStartGame = 0
                  /\ next_screen = "None"
                  /\ CountMsg(inbox[c], "StartGame") = 0
                  /\ cli[c] = [screen |-> "Lobby", next |-> "None"])

Min5(s) == IF s <= 5 THEN s ELSE 5

\* This step is a FixedUpdate run in which a projectile hits a player.
PlayerHit ==
    /\ pc = "fixed"
    /\ Len(score_events') = Len(score_events) + 1

\* This step applies the ScoreEvent at the head of the queue.
ScoreEventApplied ==
    /\ pc = "update"
    /\ score_events # <<>>
    /\ score_events' = Tail(score_events)

\* C7: a projectile that hits a player whose score is s spawns exactly
\* min(5, s) coins, with one SpawnCoin broadcast each, and once the hit's
\* score event is applied the player's score is s - min(5, s) (so for s = 0
\* no coin and the score stays 0).
C7_PenaltyDropsCoins ==
    [][/\ PlayerHit =>
            LET event == score_events'[Len(score_events')]
                s == ent[event.player].score
            IN /\ Cardinality(Coins(ent') \ Coins(ent)) = Min5(s)
               /\ CountType(NewSends, "SpawnCoin") = Min5(s)
               /\ \A e \in Coins(ent') \ Coins(ent) :
                     \E i \in 1..Len(NewSends) : NewSends[i].m = SpawnCoin(e)
       /\ ScoreEventApplied =>
            LET event == Head(score_events)
            IN ent'[event.player].score = event.seen - Min5(event.seen)]_vars

\* C8: every projectile that has been destroyed is the subject of exactly one
\* DespawnEntity broadcast once the frame of its destruction has ended, and of
\* none before it is destroyed or beyond the first.
C8_OneDespawnPerDestruction ==
    /\ \A e \in DOMAIN nDespawn :
          /\ nDespawn[e] <= 1
          /\ e \in DOMAIN ent => nDespawn[e] = 0
          /\ (e \notin DOMAIN ent /\ pc = "idle") => nDespawn[e] = 1
          /\ (e \notin DOMAIN ent /\ nDespawn[e] = 0)
                => Cardinality({i \in 1..Len(removed) : removed[i] = e}) = 1
    /\ \A i \in 1..Len(sent) :
          sent[i].m.t = "DespawnEntity"
             => /\ sent[i].m.entity \in DOMAIN nDespawn
                /\ sent[i].m.entity \notin DOMAIN ent
                /\ \A j \in 1..Len(sent) : sent[j].m = sent[i].m => j = i

\* C8's case: a projectile was destroyed in the frame that has just ended.
C8_Witness ==
    /\ pc = "idle"
    /\ \E e \in DOMAIN nDespawn :
          /\ e \notin DOMAIN ent
          /\ nDespawn[e] = 1
          /\ \E i \in 1..Len(sent) : sent[i] = BroadcastMessage(DespawnEntity(e))


\* Every collider has strictly positive width and height.
AllCollidersPositive ==
    \A e \in DOMAIN collider : collider[e].size[1] > 0 /\ collider[e].size[2] > 0

\* C21: every collider on the server has strictly positive width and height,
\* and stays so: no step (a score event for a coin or for a projectile's
\* penalty, a penalty of 0 included) takes a state in which every collider is
\* positive to one in which some collider is not.
C21_CollidersStayPositive ==
    [][AllCollidersPositive => AllCollidersPositive']_vars


\* ============================================ properties: SpecCollision
Min2(x, y) == IF x < y THEN x ELSE y

Max2(x, y) == IF x < y THEN y ELSE x

\* Twice the length the two rectangles of the call share on an axis: positive
\* when their interiors meet there, zero when they only touch, negative when
\* there is a gap.
SharedLength(axis) ==
    Min2(2 * call.a[axis] + call.a_size[axis], 2 * call.b[axis] + call.b_size[axis])
    - Max2(2 * call.a[axis] - call.a_size[axis], 2 * call.b[axis] - call.b_size[axis])

ProperRectangles ==
    /\ call.a_size[1] > 0 /\ call.a_size[2] > 0
    /\ call.b_size[1] > 0 /\ call.b_size[2] > 0

C22_ZeroSizeNeverCollides ==
    (/\ call # <<>> /\ call.fn = "check_collision" /\ call.returned
     /\ (call.a_size = <<0, 0>> \/ call.b_size = <<0, 0>>))
        => ~call.result


\* ================================================== properties: SpecMove
\* A run of move_projectiles.
FixedTickStep == pc = "fixed" /\ ticks' = ticks + 1

\* The colliders other than projectiles that the rectangle of projectile h,
\* moved by one step, overlaps, and that projectiles collide with.
OverlappedBy(h) ==
    {c \in (DOMAIN collider \cap DOMAIN translation) \ Projectiles(ent) :
        /\ collider[c].collides_with_projectile
        /\ 2 * Prospective(h)[1] - collider[h].size[1] < 2 * translation[c][1] + collider[c].size[1]
        /\ 2 * Prospective(h)[1] + collider[h].size[1] > 2 * translation[c][1] - collider[c].size[1]
        /\ 2 * Prospective(h)[2] - collider[h].size[2] < 2 * translation[c][2] + collider[c].size[2]
        /\ 2 * Prospective(h)[2] + collider[h].size[2] > 2 * translation[c][2] - collider[c].size[2]}

\* C14: a projectile never collides with the entity that fired it.  In every
\* run of move_projectiles, a projectile that is destroyed overlaps a collider
\* that is not its owner; a projectile that overlaps no collider but its
\* owner is not destroyed; and the penalty of the run, if any, does not go to
\* the owner of the projectile destroyed.
C14_OwnerNeverHit ==
    [][FixedTickStep =>
          /\ \A h \in Projectiles(ent) \ DOMAIN ent' :
                 /\ OverlappedBy(h) \ {ent[h].owner} # {}
                 /\ Len(score_events') > Len(score_events) =>
                       score_events'[Len(score_events')].player # ent[h].owner
          /\ \A h \in Projectiles(ent) :
                 OverlappedBy(h) \subseteq {ent[h].owner} => h \in DOMAIN ent'
          /\ Len(score_events') > Len(score_events) =>
                 Projectiles(ent) \ DOMAIN ent' # {}]_vars

\* A projectile fired by a player has moved and still overlaps the collider
\* of that player.
C14_Witness ==
    /\ pc = "fixed" /\ ticks > 0
    /\ \E h \in Projectiles(ent) :
          /\ ent[h].owner \in DOMAIN collider
          /\ CheckCollision(translation[h], collider[h].size,
                            translation[ent[h].owner], collider[ent[h].owner].size)


\* C15: a coin is claimed by the first toucher only: over its whole lifetime
\* at most one +1 ScoreEvent is sent for it, also when the displacements of
\* several movers overlap it in the same run of apply_movement.
C15_CoinClaimedOnce == \A k \in DOMAIN nClaims : nClaims[k] <= 1


\* The Update schedule of a frame ends and its queued commands are applied.
UpdateEnds == pc = "update" /\ pc' = "post"

\* C18: Input is last-write-wins.  When the frame's commands have been
\* applied, the PlayerInput of every client whose Input channel yielded
\* messages in the frame is the last of them, whatever the earlier ones and
\* the previous value were; the PlayerInput of every other player is what it
\* was, so the messages of a client with no lobby entry change nothing.
C18_LastInputWins ==
    [][UpdateEnds =>
          /\ \A c \in DOMAIN lobby \cap ClientIds :
                 (rx_input[c] # <<>> /\ lobby[c] \in DOMAIN ent') =>
                     player_input'[lobby[c]] = rx_input[c][Len(rx_input[c])]
          /\ \A e \in DOMAIN player_input :
                 (\A c \in DOMAIN lobby \cap ClientIds :
                     lobby[c] = e => rx_input[c] = <<>>) =>
                     (e \in DOMAIN player_input' /\ player_input'[e] = player_input[e])
          /\ DOMAIN player_input' = DOMAIN player_input]_vars

\* Two different Input messages of client 102 were received in one frame and
\* the second is its PlayerInput.
C18_Witness ==
    /\ pc = "post"
    /\ ClientB \in DOMAIN lobby
    /\ Len(rx_input[ClientB]) = 2
    /\ rx_input[ClientB][1] # rx_input[ClientB][2]
    /\ player_input[lobby[ClientB]] = rx_input[ClientB][2]


\* apply_movement processes the next mover.
MoverStepTaken ==
    pc = "moving" /\ movement_data # <<>> /\ movement_data' = Tail(movement_data)

\* Some blocking collider (one that collides with players, is not a coin
\* and is not the mover) overlaps the rectangle of mover e displaced by d.
BlockedAt(e, d) ==
    \E k \in (DOMAIN collider \cap DOMAIN translation) \ {e} :
        /\ collider[k].collides_with_player
        /\ ent[k].kind # "coin"
        /\ 2 * (translation[e][1] + d[1]) - collider[e].size[1]
              < 2 * translation[k][1] + collider[k].size[1]
        /\ 2 * (translation[e][1] + d[1]) + collider[e].size[1]
              > 2 * translation[k][1] - collider[k].size[1]
        /\ 2 * (translation[e][2] + d[2]) - collider[e].size[2]
              < 2 * translation[k][2] + collider[k].size[2]
        /\ 2 * (translation[e][2] + d[2]) + collider[e].size[2]
              > 2 * translation[k][2] - collider[k].size[2]

\* intent * max_speed * dt of mover e.
FullStep(e) ==
    <<Quotient(intent[e][1] * PLAYER_MOVE_SPEED * Scale, 64 * Unit),
      Quotient(intent[e][2] * PLAYER_MOVE_SPEED * Scale, 64 * Unit)>>

\* C20: per-axis movement.  When apply_movement processes a mover, its
\* position advances on the x axis by exactly intent.x * max_speed * dt if its
\* rectangle displaced along x overlaps no blocking collider, and by exactly
\* zero if it overlaps one; and the same on the y axis, whatever happens on
\* the other axis.
C20_PerAxisMovement ==
    [][MoverStepTaken =>
          LET e == Head(movement_data).entity
          IN /\ translation'[e][1] - translation[e][1] =
                   (IF BlockedAt(e, <<FullStep(e)[1], 0>>) THEN 0 ELSE FullStep(e)[1])
             /\ translation'[e][2] - translation[e][2] =
                   (IF BlockedAt(e, <<0, FullStep(e)[2]>>) THEN 0 ELSE FullStep(e)[2])]_vars

\* MoverA, heading up and right from its first position, was stopped by the
\* wall along x and has advanced along y.
C20_Witness ==
    /\ frames = 1
    /\ intent[MoverA] = <<Diagonal, Diagonal>>
    /\ translation[MoverA] = <<0, FullStep(MoverA)[2]>>
    /\ FullStep(MoverA)[2] > 0


\* ================================================ properties: SpecClient
\* client_sync_players processes one message of ServerChannel::ServerMessages.
MessageProcessed ==
    /\ cpc = "sync"
    /\ inbox[TheClient] # <<>>
    /\ inbox'[TheClient] = Tail(inbox[TheClient])

\* client_sync_players processes one NetworkedEntities message.
SnapshotProcessed == cpc = "sync" /\ snapq # <<>> /\ snapq' = Tail(snapq)

\* The commands of the client's frame are applied.
ClientCommandsApplied == cpc = "sync" /\ cpc' # "sync"

\* network_mapping' is network_mapping with server entity e mapped to the
\* local entity l.
MappingGains(e, l) ==
    /\ DOMAIN network_mapping' = DOMAIN network_mapping \cup {e}
    /\ network_mapping'[e] = l
    /\ \A k \in DOMAIN network_mapping \ {e} : network_mapping'[k] = network_mapping[k]

\* network_mapping' is network_mapping without server entity e.
MappingLoses(e) ==
    /\ DOMAIN network_mapping' = DOMAIN network_mapping \ {e}
    /\ \A k \in DOMAIN network_mapping' : network_mapping'[k] = network_mapping[k]

\* The last command queued in this step despawns the local entity l.
DespawnQueued(l) ==
    /\ Len(cdeferred') = Len(cdeferred) + 1
    /\ cdeferred'[Len(cdeferred')].op = "despawn"
    /\ cdeferred'[Len(cdeferred')].l = l

\* C16 as stated: the mapping gains an entry each time the client processes
\* PlayerCreate, SpawnGameObject, SpawnProjectile or SpawnCoin.
C16_EverySpawnMessageMapped ==
    [][(MessageProcessed /\ Head(inbox[TheClient]).t \in SpawnMessages) =>
          Cardinality(DOMAIN network_mapping') = Cardinality(DOMAIN network_mapping) + 1]_vars

\* C16, amended: the mapping gains the entry (server entity -> the local
\* entity just spawned) each time the client processes PlayerCreate,
\* SpawnProjectile or SpawnCoin; SpawnGameObject, which carries no server
\* entity, spawns a local entity and leaves the mapping alone; the mapping
\* loses the entry, and the despawn of the mapped local entity is queued, each
\* time the client processes DespawnEntity for a mapped entity or PlayerRemove
\* for a player of its lobby; no other message, and no snapshot, changes the
\* mapping; and when the frame's commands are applied the despawned local
\* entities are gone.
C16_MappingFollowsSpawnsAndDespawns ==
    /\ [][MessageProcessed =>
             LET m == Head(inbox[TheClient])
             IN CASE m.t \in {"PlayerCreate", "SpawnProjectile", "SpawnCoin"} ->
                       /\ MappingGains(m.entity, next_local)
                       /\ next_local' = next_local + 1
                  [] m.t = "SpawnGameObject" ->
                       /\ network_mapping' = network_mapping
                       /\ next_local' = next_local + 1
                  [] m.t = "DespawnEntity" /\ m.entity \in DOMAIN network_mapping ->
                       /\ MappingLoses(m.entity)
                       /\ DespawnQueued(network_mapping[m.entity])
                  [] m.t = "PlayerRemove" /\ m.id \in DOMAIN client_lobby ->
                       /\ MappingLoses(client_lobby[m.id].server_entity)
                       /\ DespawnQueued(client_lobby[m.id].client_entity)
                       /\ network_mapping[client_lobby[m.id].server_entity]
                             = client_lobby[m.id].client_entity
                  [] OTHER -> network_mapping' = network_mapping]_vars
    /\ [][~MessageProcessed => network_mapping' = network_mapping]_vars
    /\ [][ClientCommandsApplied =>
             \A i \in 1..Len(cdeferred) :
                cdeferred[i].op = "despawn" => cdeferred[i].l \notin DOMAIN local']_vars

\* A static object and a mapped entity were spawned, the mapped entity was
\* despawned: the object is all that is left, and nothing is mapped.
C16_Witness ==
    /\ cpc = "idle"
    /\ next_local = 3
    /\ network_mapping = <<>>
    /\ \E l \in DOMAIN local : DOMAIN local = {l} /\ local[l].kind = "object"

\* The entries of the NetworkedEntities messages snaps, in the order in which
\* the client went through them.
RECURSIVE Entries(_)
Entries(snaps) == IF snaps = <<>> THEN <<>> ELSE Head(snaps) \o Entries(Tail(snaps))

\* The positions in entries of the entries for server entity e.
EntriesFor(entries, e) == {i \in 1..Len(entries) : entries[i].entity = e}

\* C17: a NetworkedEntities message changes no mapping entry, no lobby entry
\* and no local entity's existence, whether its entities are mapped or not,
\* and queues one command per mapped entry, none for an unmapped one; no
\* command of the client ever fails; and when the commands of the frame are
\* applied, the position of every mapped local entity for which the frame's
\* snapshots had an entry is the translation of the last such entry, and
\* every other local entity that was there is where it was.
C17_SnapshotOverwritesMapped ==
    /\ [][SnapshotProcessed =>
             /\ network_mapping' = network_mapping
             /\ client_lobby' = client_lobby
             /\ next_local' = next_local
             /\ DOMAIN local' = DOMAIN local
             /\ Len(cdeferred') - Len(cdeferred) =
                   Cardinality({i \in 1..Len(Head(snapq)) :
                                   Head(snapq)[i].entity \in DOMAIN network_mapping})]_vars
    /\ [][ClientCommandsApplied =>
             LET entries == Entries(rx_snap)
                 shown == {e \in DOMAIN network_mapping : EntriesFor(entries, e) # {}}
             IN /\ \A e \in shown :
                      network_mapping[e] \in DOMAIN local' =>
                         local'[network_mapping[e]].translation =
                            entries[CHOOSE i \in EntriesFor(entries, e) :
                                       \A j \in EntriesFor(entries, e) : j <= i].translation
                /\ \A l \in DOMAIN local \cap DOMAIN local' :
                      (\A e \in shown : network_mapping[e] # l) =>
                         local'[l].translation = local[l].translation]_vars
    /\ [](cpc # "failed")

\* A frame's snapshots had an entry for an entity without a mapping and one
\* for a mapped entity, which is now where the snapshot said.
C17_Witness ==
    /\ cpc = "idle"
    /\ \E i \in 1..Len(Entries(rx_snap)) :
          Entries(rx_snap)[i].entity \notin DOMAIN network_mapping
    /\ \E e \in DOMAIN network_mapping :
          /\ network_mapping[e] \in DOMAIN local
          /\ EntriesFor(Entries(rx_snap), e) # {}
          /\ local[network_mapping[e]].translation # SpawnPoint

\* ================================================ properties: SpecSpawner
\* The SpawnCoin broadcasts this step adds to the frame's send log.
NewSpawnCoins ==
    IF pc = "idle" THEN CountType(sent', "SpawnCoin")
    ELSE CountType(sent', "SpawnCoin") - CountType(sent, "SpawnCoin")

\* C23: the periodic coin spawner is active only while the server is in the
\* Gameplay state: a FixedUpdate run in which the state is not Gameplay spawns
\* no coin and broadcasts no SpawnCoin, and while the state is not Gameplay
\* no coin exists and no SpawnCoin is in the frame's sends.
C23_SpawnerOnlyInGameplay ==
    /\ [](screen # "Gameplay" =>
             /\ Coins(ent) = {}
             /\ CountType(sent, "SpawnCoin") = 0)
    /\ [][(screen # "Gameplay" \/ screen' # "Gameplay") =>
             /\ Coins(ent') = Coins(ent)
             /\ NewSpawnCoins = 0]_vars

\* FixedUpdate has run in a frame whose state is still Lobby, although both
\* clients are ready and the transition to Gameplay is requested: the spawner
\* spawned nothing.
C23_Witness ==
    /\ screen = "Lobby"
    /\ next_screen = "Gameplay"
    /\ ticks = MaxFixedTicks
    /\ Coins(ent) = {}

\* The spawner has spawned a coin in Gameplay.
SpawnerSpawned ==
    /\ screen = "Gameplay"
    /\ Coins(ent) # {}
    /\ CountType(sent, "SpawnCoin") = 1

\* ================================================ properties: the mirror
\* The server's live players, projectiles and coins.
LiveNetworked ==
    {e \in DOMAIN ent : ent[e].kind \in {"player", "projectile", "coin"}}

\* The client has joined (it has processed the PlayerCreate of its own
\* player), every reliable message sent to it has been processed and the
\* commands of its frame are applied.
ClientCaughtUp ==
    /\ TheClient \in DOMAIN client_lobby
    /\ inbox[TheClient] = <<>>
    /\ cpc = "idle"

\* C24: the client's mirror is eventually consistent, whenever it joined: once
\* every reliable message sent to the client has been processed, the server
\* entity ids of its NetworkMapping are exactly the server's live players,
\* projectiles and coins, also when a projectile or a coin existed before the
\* client connected.
C24_MirrorEventuallyConsistent ==
    ClientCaughtUp => DOMAIN network_mapping = LiveNetworked

\* ================================================ properties: projectiles
\* Projectile p's prospective rectangle overlaps a collider other than its
\* owner's that projectiles collide with.
Hits(p) == OverlappedBy(p) \ {ent[p].owner} # {}

\* C25: in each run of move_projectiles every live projectile is handled: one
\* whose prospective position overlaps a qualifying collider is destroyed
\* without moving, and every other one advances by exactly
\* direction * speed * dt in that same run, whatever happened to the others.
C25_EveryProjectileHandled ==
    [][FixedTickStep =>
          \A p \in Projectiles(ent) :
             IF Hits(p)
             THEN p \notin DOMAIN ent'
             ELSE /\ p \in DOMAIN ent'
                  /\ translation'[p] = Prospective(p)]_vars

\* The rectangle of projectile h, moved by one step, overlaps collider c.
ProspectiveOverlaps(h, c) ==
    /\ 2 * Prospective(h)[1] - collider[h].size[1] < 2 * translation[c][1] + collider[c].size[1]
    /\ 2 * Prospective(h)[1] + collider[h].size[1] > 2 * translation[c][1] - collider[c].size[1]
    /\ 2 * Prospective(h)[2] - collider[h].size[2] < 2 * translation[c][2] + collider[c].size[2]
    /\ 2 * Prospective(h)[2] + collider[h].size[2] > 2 * translation[c][2] - collider[c].size[2]

\* The entities other than projectiles and other than h's owner whose
\* collider collides with players and which h's prospective rectangle overlaps.
PlayerCollidersMet(h) ==
    {c \in (DOMAIN collider \cap DOMAIN translation) \ Projectiles(ent) :
        /\ collider[c].collides_with_player
        /\ c # ent[h].owner
        /\ ProspectiveOverlaps(h, c)}

\* The projectiles this run of move_projectiles destroys.
Destroyed == Projectiles(ent) \ DOMAIN ent'

FlightEntities == (HumanEntity + 1)..(HumanEntity + 2 + MaxScore)

\* C27: every projectile is eventually destroyed, on its first qualifying
\* collision or once it has left the map: no projectile stays alive forever.
C27_EveryProjectileDestroyed ==
    \A e \in FlightEntities : (e \in Projectiles(ent)) ~> (e \notin DOMAIN ent)

\* A projectile is far outside the map, beyond every collider, and alive.
ProjectileFarOut ==
    \E e \in Projectiles(ent) : translation[e][2] = MaxFlightY * Scale

\* ================================================ properties: BasicAttack
\* This step is server_update_system in a frame of the game.
ServerUpdateStep ==
    /\ pc = "update"
    /\ "server_update" \notin ran
    /\ "server_update" \in ran'

\* The commands this step queues.
NewCommands == SubSeq(deferred', Len(deferred) + 1, Len(deferred'))

\* Of them, the spawns of a projectile.
NewSpawns == {i \in DOMAIN NewCommands : NewCommands[i].op = "spawn_projectile"}

\* The BasicAttack commands waiting on client c's Command channel.
AttacksFrom(c) == Cardinality({i \in 1..Len(cmdq[c]) : cmdq[c][i] = "BasicAttack"})

\* C28: a BasicAttack from a client whose player's intent is zero spawns no
\* projectile and broadcasts nothing; with a nonzero intent it spawns exactly
\* one projectile, owned by the sender's player entity and directed along the
\* intent, and broadcasts exactly one SpawnProjectile for it.  When the
\* frame's commands are applied the projectile exists with that owner and
\* direction.
C28_BasicAttackSpawnsOne ==
    [][/\ ServerUpdateStep =>
            /\ \A c \in connected \cap DOMAIN lobby :
                  lobby[c] \in DOMAIN intent =>
                     LET mine == {i \in NewSpawns : NewCommands[i].owner = lobby[c]}
                     IN /\ Cardinality(mine) =
                              (IF intent[lobby[c]] = <<0, 0>> THEN 0 ELSE AttacksFrom(c))
                        /\ \A i \in mine : NewCommands[i].direction = intent[lobby[c]]
            /\ \A i \in NewSpawns :
                  /\ \E c \in connected \cap DOMAIN lobby : NewCommands[i].owner = lobby[c]
                  /\ NewCommands[i].e \notin DOMAIN ent
                  /\ \A j \in NewSpawns : NewCommands[j].e = NewCommands[i].e => j = i
                  /\ Cardinality({j \in DOMAIN NewSends :
                                     NewSends[j] = BroadcastMessage(SpawnProjectile(NewCommands[i].e))}) = 1
            /\ Len(NewSends) = Cardinality(NewSpawns)
       /\ UpdateEnds =>
            \A i \in DOMAIN deferred :
               deferred[i].op = "spawn_projectile" =>
                  /\ deferred[i].e \in DOMAIN ent'
                  /\ ent'[deferred[i].e] = Projectile(deferred[i].owner, deferred[i].direction)]_vars

\* In one frame a BasicAttack of client 101 was handled while its player's
\* intent was zero, and nothing was spawned or sent.
C28_Witness ==
    /\ pc = "update"
    /\ "server_update" \in ran
    /\ "move_players" \notin ran
    /\ inputs > 0
    /\ cmdq[ClientA] = <<>>
    /\ intent[MoverA] = <<0, 0>>
    /\ sent = <<>>
    /\ deferred = <<>>
    /\ inputq = [c \in ClientIds |-> <<>>]
    /\ rx_input = [c \in ClientIds |-> <<>>]

\* A BasicAttack of client 101 spawned a projectile along its intent.
AttackSpawned ==
    \E p \in Projectiles(ent) :
       /\ ent[p].owner = MoverA
       /\ ent[p].direction = intent[MoverA]
       /\ \E i \in 1..Len(sent) : sent[i] = BroadcastMessage(SpawnProjectile(p))

\* ================================================ properties: blocked movers
\* Collider k blocks mover m (an entry of movement_data) displaced by d: it
\* is not the mover, collides with players, is not a coin and overlaps the
\* displaced rectangle.
Blocks(m, k, d) ==
    /\ k # m.entity
    /\ collider[k].collides_with_player
    /\ ent[k].kind # "coin"
    /\ 2 * (m.t[1] + d[1]) - m.c.size[1] < 2 * translation[k][1] + collider[k].size[1]
    /\ 2 * (m.t[1] + d[1]) + m.c.size[1] > 2 * translation[k][1] - collider[k].size[1]
    /\ 2 * (m.t[2] + d[2]) - m.c.size[2] < 2 * translation[k][2] + collider[k].size[2]
    /\ 2 * (m.t[2] + d[2]) + m.c.size[2] > 2 * translation[k][2] - collider[k].size[2]

\* Mover m moves along both axes, and after the first j colliders of the
\* iteration it is blocked on both.
BlockedOnBothWithin(m, j) ==
    /\ m.movement_this_frame[1] # 0
    /\ m.movement_this_frame[2] # 0
    /\ \E i \in 1..j : Blocks(m, m.colliders[i], <<m.movement_this_frame[1], 0>>)
    /\ \E i \in 1..j : Blocks(m, m.colliders[i], <<0, m.movement_this_frame[2]>>)

\* The coins this step of apply_movement queues a despawn for.
CoinsConsumed ==
    {deferred'[i].e : i \in (Len(deferred) + 1)..Len(deferred')}

\* C29: a mover that is blocked on both axes is skipped for the rest of the
\* run: its position does not change, no collider that comes later in the
\* iteration is tested for it, so it consumes no coin that comes later, and
\* apply_movement goes on with the next mover.
C29_BlockedMoverSkipped ==
    [][MoverStepTaken =>
          LET m == Head(movement_data)
          IN \A j \in DOMAIN m.colliders :
                BlockedOnBothWithin(m, j) =>
                   /\ translation'[m.entity] = translation[m.entity]
                   /\ \A i \in (j + 1)..Len(m.colliders) :
                         m.colliders[i] \notin CoinsConsumed
                   /\ Len(score_events') - Len(score_events) = Cardinality(CoinsConsumed)
                   /\ movement_data' = Tail(movement_data)]_vars

\* ================================================ properties: score scaling
\* client_sync_players: transform.scale = 1.0 + calculate_score_growth(score),
\* in tenths.
ClientScoreScale(score) == 10 + score

\* C30: score-driven scaling uses the same formula on both sides: when the
\* server applies a score event that leaves a player with score s, the
\* player's collider is the base size times the scale 1 + 0.1 * s that the
\* client gives the mirrored player for the score s.
C30_SameScalingOnBothSides ==
    [][ScoreEventApplied =>
          LET p == Head(score_events).player
              s == ent'[p].score
          IN collider'[p].size =
                <<(PLAYER_BASE_COLLIDER_SIZE[1] * ClientScoreScale(s)) \div 10,
                  (PLAYER_BASE_COLLIDER_SIZE[2] * ClientScoreScale(s)) \div 10>>]_vars

\* ============================================ properties: SetPlayerReady
\* Player.is_ready of the client's entity l after the step: of the entity in
\* the world, or of the spawn command still queued for it.
MirroredReady(l) ==
    IF l \in DOMAIN local' THEN local'[l].is_ready
    ELSE LET spawns == {i \in 1..Len(cdeferred') :
                           cdeferred'[i].op = "spawn" /\ cdeferred'[i].l = l}
         IN IF spawns = {} THEN ~Head(inbox[TheClient]).is_ready
            ELSE cdeferred'[CHOOSE i \in spawns : TRUE].is_ready

\* C31: when the client processes SetPlayerReady for a server entity it has
\* a mapping for, the mirrored player's is_ready becomes the message's value
\* and exactly one ToggleReadyEvent is sent, also when the PlayerCreate that
\* made the mapping was drained earlier in the same frame; nothing else
\* changes.
C31_SetPlayerReadyApplied ==
    [][(/\ MessageProcessed
        /\ Head(inbox[TheClient]).t = "SetPlayerReady"
        /\ Head(inbox[TheClient]).entity \in DOMAIN network_mapping)
       => LET m == Head(inbox[TheClient])
              l == network_mapping[m.entity]
          IN /\ MirroredReady(l) = m.is_ready
             /\ toggles' = Append(toggles, [player |-> l, is_ready |-> m.is_ready])
             /\ \A k \in DOMAIN local \ {l} : k \in DOMAIN local' /\ local'[k] = local[k]
             /\ DOMAIN local' = DOMAIN local
             /\ UNCHANGED <<network_mapping, client_lobby, next_local, cdeferred, cli>>]_vars

\* SetPlayerReady is processed in a frame later than the one that drained
\* the PlayerCreate: the flag is set and one event is sent.
SetPlayerReadyLater ==
    /\ cpc = "sync"
    /\ toggles # <<>>
    /\ toggles[Len(toggles)].player \in DOMAIN local
    /\ local[toggles[Len(toggles)].player].is_ready = toggles[Len(toggles)].is_ready

\* ========================================= properties: NetworkedEntities
\* server_network_sync runs.
SyncStep == "server_network_sync" \notin ran /\ "server_network_sync" \in ran'

\* The live Player and Projectile entities: the ones in the world, without
\* those a command of the running schedule has yet to spawn.
LivePlayersAndProjectiles ==
    {e \in DOMAIN ent : /\ ent[e].kind \in {"player", "projectile"}
                        /\ \A i \in 1..Len(sent) : sent[i].m # SpawnProjectile(e)}

\* C32: every NetworkedEntities message the server broadcasts has four arrays
\* of one length, with one entry, at the same index in each, per live Player
\* or Projectile entity and none for any other entity; the score entry is
\* present exactly for the Player entities.
C32_SnapshotArraysParallel ==
    [][SyncStep =>
          LET msg == snapq'[Len(snapq')]
              n == Len(msg.entities)
          IN /\ Len(msg.translations) = n
             /\ Len(msg.facing_directions) = n
             /\ Len(msg.score) = n
             /\ {msg.entities[i] : i \in 1..n} = LivePlayersAndProjectiles
             /\ \A i, j \in 1..n : i # j => msg.entities[i] # msg.entities[j]
             /\ \A i \in 1..n :
                   /\ msg.translations[i] = translation[msg.entities[i]]
                   /\ (msg.score[i] # NoScore) <=> (ent[msg.entities[i]].kind = "player")
                   /\ ent[msg.entities[i]].kind = "player"
                         => msg.score[i] = ent[msg.entities[i]].score
                   /\ ent[msg.entities[i]].kind = "projectile"
                         => msg.facing_directions[i] = ent[msg.entities[i]].direction]_vars

\* A message was sent while a projectile was in flight and a coin lay in the
\* world: it has entries with a score and an entry without, and none for the
\* coin.
C32_Witness ==
    /\ snapq # <<>>
    /\ "server_network_sync" \in ran
    /\ Coins(ent) # {}
    /\ \E i, j \in 1..Len(snapq[1].entities) :
          /\ snapq[1].score[i] = NoScore
          /\ snapq[1].score[j] # NoScore
          /\ snapq[1].entities[i] \in Projectiles(ent)

\* ============================================ properties: the game objects
\* The game objects of kind k in the server's world.
ObjectsOfKind(k) == {e \in DOMAIN ent : ent[e].kind = "object" /\ ent[e].id = k}

\* C33: generate_world creates exactly 8 ground patches of kind 0, one pond
\* of kind 1, between 12 and 20 trees of kind 2 and 8 walls of a kind in
\* 3..6; so every SpawnGameObject id sent to a client is in 0..6, indexes the
\* client's table, and never reaches the client's unreachable branch.
C33_WorldKindsInRange ==
    pc # "startup" =>
       /\ Cardinality(ObjectsOfKind(0)) = 8
       /\ Cardinality(ObjectsOfKind(1)) = 1
       /\ Cardinality(ObjectsOfKind(2)) \in 12..20
       /\ Cardinality(UNION {ObjectsOfKind(k) : k \in 3..6}) = 8
       /\ \A e \in DOMAIN ent : ent[e].kind = "object" => ent[e].id \in 0..6
       /\ \A i \in 1..Len(sent) :
             sent[i].m.t = "SpawnGameObject" =>
                sent[i].m.id \in 0..6 /\ sent[i].m.id + 1 \in DOMAIN ClientObjColliderSizes
       /\ cpc # "failed"

\* The client has spawned the objects of a world with 20 trees, a wall of
\* kind 3 and a wall of kind 6.
C33_Witness ==
    /\ Cardinality(ObjectsOfKind(2)) = 20
    /\ inbox[TheClient] = <<>>
    /\ Cardinality({l \in DOMAIN local : local[l].kind = "object"}) = 37
    /\ \E l, k \in DOMAIN local :
          /\ local[l].kind = "object" /\ local[l].id = 3
          /\ local[k].kind = "object" /\ local[k].id = 6

\* ============================================ properties: spawn positions
\* C34: spawn positions go round-robin over the ring of 8: after any
\* sequence of connects and disconnects, no two players that are in the lobby
\* at the same time were given the same spawn position, as long as at most 8
\* players are in the lobby.
C34_SpawnPositionsDistinct ==
    Cardinality(DOMAIN lobby) <= Len(SPAWN_POSITIONS) =>
       \A c, d \in DOMAIN lobby :
          c # d => translation[lobby[c]] # translation[lobby[d]]

\* ======================================== properties: colliders by kind
\* The collider of the client's entity l is the one the server uses: for an
\* object, the Collider of the server's objects of that kind (an object the
\* server gives no Collider collides with nothing on the client); for a
\* player, the Collider of the server's player.
SameColliderAsServer(l) ==
    IF local[l].kind = "object"
    THEN \A e \in ObjectsOfKind(local[l].id) :
            IF e \in DOMAIN collider
            THEN local[l].collider = collider[e]
            ELSE /\ ~local[l].collider.collides_with_player
                 /\ ~local[l].collider.collides_with_projectile
    ELSE local[l].collider = collider[local[l].server_entity]

\* C35: the kind selects the same collider on both sides: for every static
\* object kind 0..6 the client attaches the collider size and the
\* collides_with_player and collides_with_projectile flags the server uses
\* for that kind, and the client's player collider is the server's base
\* player collider.
C35_SameColliderBothSides == \A l \in DOMAIN local : SameColliderAsServer(l)

\* What does agree: the walls (kinds 3..6) and the ground patches, and the
\* flags of every kind.
WallsAndFlagsAgree ==
    \A l \in DOMAIN local :
       /\ local[l].kind = "object" /\ local[l].id \in {0, 3, 4, 5, 6}
             => SameColliderAsServer(l)
       /\ local[l].kind = "object" =>
             \A e \in ObjectsOfKind(local[l].id) \cap DOMAIN collider :
                /\ local[l].collider.collides_with_player = collider[e].collides_with_player
                /\ local[l].collider.collides_with_projectile
                      = collider[e].collides_with_projectile

\* ================================================== properties: the score
\* C36: a player's score is never negative in any reachable state of the
\* server, however the FixedUpdate runs of move_projectiles, which read the
\* score for the penalty, interleave with the later application of the
\* queued score events.
C36_ScoreNeverNegative ==
    \A e \in DOMAIN ent : ent[e].kind = "player" => ent[e].score >= 0

\* ============================================ properties: no new overlap
\* The colliders that block a mover: the others that collide with players,
\* coins apart.
Blockers(m) ==
    {k \in (DOMAIN collider \cap DOMAIN translation \cap DOMAIN ent) \ {m} :
        collider[k].collides_with_player /\ ent[k].kind # "coin"}

\* Mover m, standing at `at`, overlaps a blocker standing where `where` has it.
OverlapsBlocker(m, at, where) ==
    \E k \in Blockers(m) :
       CheckCollision(at, collider[m].size, where[k], collider[k].size)

\* C37: movement never creates an overlap: a mover whose rectangle overlaps
\* no blocking collider before apply_movement runs overlaps none after it,
\* whatever its intent, a diagonal one included, and in whatever order the
\* movers are processed.
C37_MovementCreatesNoOverlap ==
    [][MoverStepTaken =>
          LET m == Head(movement_data).entity
          IN ~OverlapsBlocker(m, translation[m], translation)
                => ~OverlapsBlocker(m, translation'[m], translation')]_vars

\* ================================================ properties: ServerLobby
\* The server's frame ends.
TickEnds == pc # "idle" /\ pc' = "idle"

\* ServerLobby has one entry per connected client and per spawned bot, and
\* the entries map to distinct live entities whose Player.id is the key.
LobbyConsistent ==
    /\ DOMAIN lobby = connected \cup 0..(bot_id - 1)
    /\ \A c \in DOMAIN lobby :
          /\ lobby[c] \in DOMAIN ent
          /\ ent[lobby[c]].kind = "player"
          /\ ent[lobby[c]].id = c
    /\ \A c, d \in DOMAIN lobby : c # d => lobby[c] # lobby[d]

\* C38: at the end of every server tick, ServerLobby has exactly one entry
\* per connected client and per spawned bot, and each entry maps to a
\* distinct live entity whose Player.id equals the entry's key.
C38_LobbyMatchesPlayers == [][TickEnds => LobbyConsistent']_vars

\* A tick has ended with a bot and two clients in the lobby, one of which
\* had left and come back.
C38_Witness ==
    /\ pc = "idle"
    /\ server_events = <<>>
    /\ bot_id = 1
    /\ connected = ClientIds
    /\ DOMAIN lobby = ClientIds \cup {0}
    /\ nextEntity > NumGameObjects + 4

\* ========================================= properties: before Gameplay
\* C39: as long as the server has not entered Gameplay, every player's score
\* is 0 and no coin exists, whatever projectiles are fired in the meantime.
C39_NoScoreNoCoinBeforeGameplay ==
    screen # "Gameplay" =>
       /\ \A e \in DOMAIN ent : ent[e].kind = "player" => ent[e].score = 0
       /\ Coins(ent) = {}
       /\ \A i \in 1..Len(score_events) : score_events[i].delta = 0

\* In the lobby, a projectile has hit the human player and the score event
\* of the hit has been applied.
C39_Witness ==
    /\ screen = "Lobby"
    /\ next_screen = "None"
    /\ pc = "update"
    /\ score_events = <<>>
    /\ \E e \in DOMAIN nDespawn : e \notin DOMAIN ent
    /\ collider[HumanEntity].size = ScoredColliderSize(0)

\* C40: in the sequence of the server's reliable broadcasts, every
\* DespawnEntity for an entity id comes after exactly one SpawnProjectile or
\* SpawnCoin for that id, and no id is the subject of two DespawnEntity
\* messages; this covers a coin that two movers claim in one tick and a coin
\* that is despawned in the tick in which it was spawned.
C40_OneSpawnThenOneDespawn ==
    \A i \in 1..Len(broadcasts) :
       broadcasts[i].t = "DespawnEntity"
          => /\ Cardinality({j \in 1..(i - 1) :
                                /\ broadcasts[j].t \in {"SpawnProjectile", "SpawnCoin"}
                                /\ broadcasts[j].entity = broadcasts[i].entity}) = 1
             /\ \A k \in 1..Len(broadcasts) : broadcasts[k] = broadcasts[i] => k = i

\* C40's case: a coin that two movers claimed in one tick has been withdrawn
\* by a DespawnEntity broadcast.
C40_Witness ==
    \E k \in DOMAIN nClaims :
       /\ nClaims[k] = 2
       /\ \E i \in 1..Len(broadcasts) : broadcasts[i] = DespawnEntity(k)

\* C40's other case: a coin announced in this frame has been despawned, and
\* withdrawn by a DespawnEntity broadcast, in the same frame.
C40_SameTickWitness ==
    \E i \in 1..Len(sent), j \in 1..Len(sent) :
       /\ sent[i].m.t = "SpawnCoin"
       /\ sent[j].m = DespawnEntity(sent[i].m.entity)
       /\ i < j

=============================================================================
